---- MODULE Spec2Model ----
(***************************************************************************)
(* Model of the scenario test harness of sgnl-actions/testing:             *)
(*   assertions.mjs  - assertInvokeReturns / assertInvokeThrows /          *)
(*                     assertErrorReturns / assertErrorThrows /            *)
(*                     runScenarioHandlers                                 *)
(*   setup-nock.mjs  - setupNock / cleanupNock                             *)
(*   index.mjs       - mergeDefaults / resolveStepFixtures / runScenarios  *)
(*   parse-fixture.mjs   - parseFixtureString / parseFixture               *)
(*   parse-scenarios.mjs - COMMON_SCENARIOS / parseScenariosString         *)
(* Strings are sequences of one-character strings, JavaScript values are   *)
(* records [t, id, text, props]; `id` is the identity of an object (or the *)
(* numeric value of a number).                                             *)
(***************************************************************************)
EXTENDS Integers, Sequences, FiniteSets, TLC

VARIABLES
  scriptOption,  \* options.script: a path to import or the module itself
  imports,       \* number of dynamic imports started
  script,        \* the module the tests use (the describe block's `script`)
  action,        \* doc.action of the scenario file
  scenarios,     \* the parsed scenario list
  cur,           \* index of the scenario whose test is running / next
  pc,            \* position inside the current test
  params,        \* merged params of the current test
  context,       \* merged context of the current test
  netConnect,    \* nock: real outbound networking allowed
  pending,       \* nock: active (installed, not yet consumed) interceptors
  resolvedSteps, \* the steps of the current test with their fixtures resolved
  scopes,        \* handles returned by setupNock for the current test
  consoleMuted,  \* console.log/console.error replaced by no-ops
  invokeCalls,   \* arguments of the calls made to script.invoke
  errorCalls,    \* arguments of the calls made to script.error
  invokeOutcome, \* how the invoke call settled
  invokeAssert,  \* what assertInvokeReturns / assertInvokeThrows settled with
  caughtError,   \* the error returned by assertInvokeThrows
  errorOutcome,  \* how the error call settled
  errorAssert,   \* what assertErrorReturns / assertErrorThrows settled with
  engineResult,  \* how runScenarioHandlers settled
  verified,      \* the scope.done() loop was entered in the current test
  outcome,       \* per test: "none" | "pass" | "fail"
  failure,       \* what the current test failed with
  cleanups,      \* per test: number of cleanupNock runs after it
  yamlDoc,       \* the document yaml.load returned to parseScenariosString
  includeCommon, \* options.includeCommon of parseScenariosString
  parseResult,   \* what parseScenariosString settled with
  rawParts,      \* the lines a raw fixture text was put together from
  fixtureText,   \* the raw fixture text given to parseFixtureString
  fixtureResult, \* what parseFixtureString settled with
  reparseResult, \* what parsing the serialized fixture again settled with
  fs,            \* the working directory of the scaffolding CLI
  fsAtStart,     \* that directory as it was when the CLI started
  cli            \* exit status and output of the scaffolding CLI

vars == <<scriptOption, imports, script, action, scenarios, cur, pc, params, context,
          netConnect, pending, resolvedSteps, scopes, consoleMuted, invokeCalls, errorCalls,
          invokeOutcome, invokeAssert, caughtError, errorOutcome, errorAssert,
          engineResult, verified, outcome, failure, cleanups,
          yamlDoc, includeCommon, parseResult, rawParts, fixtureText, fixtureResult, reparseResult,
          fs, fsAtStart, cli>>

----------------------------------------------------------------------------
(* Bounds *)

MaxMsgLen == 2
NumScenarios == 2

----------------------------------------------------------------------------
(* Strings *)

Chars == {"a", "b", "A"}

RECURSIVE StringsUpTo(_)
StringsUpTo(n) ==
  IF n = 0 THEN {<<>>}
  ELSE LET shorter == StringsUpTo(n - 1)
       IN  shorter \cup {Append(s, c) : s \in {x \in shorter : Len(x) = n - 1}, c \in Chars}

\* String.prototype.includes: case-sensitive substring test
Includes(text, sub) ==
  \E i \in 0..(Len(text) - Len(sub)) : SubSeq(text, i + 1, i + Len(sub)) = sub

----------------------------------------------------------------------------
(* JavaScript values *)

Undefined == [t |-> "undefined", id |-> 0, text |-> <<>>, props |-> <<>>]
Null      == [t |-> "null", id |-> 0, text |-> <<>>, props |-> <<>>]
Num(n)    == [t |-> "number", id |-> n, text |-> <<>>, props |-> <<>>]
Str(s)    == [t |-> "string", id |-> 0, text |-> s, props |-> <<>>]
\* an Error object with identity i and message m
Err(i, m) == [t |-> "error", id |-> i, text |-> m, props |-> <<>>]
\* a composite value (array / nested object) with identity i and JSON text j
Obj(i, j) == [t |-> "object", id |-> i, text |-> j, props |-> <<>>]
\* a plain object with own properties f
Map(i, f) == [t |-> "object", id |-> i, text |-> <<>>, props |-> f]

\* ToBoolean
Truthy(v) ==
  /\ v.t \notin {"undefined", "null"}
  /\ ~(v.t = "number" /\ v.id = 0)
  /\ ~(v.t = "string" /\ v.text = <<>>)

\* property access v[key] on a non-nullish value
Get(v, key) == IF key \in DOMAIN v.props THEN v.props[key] ELSE Undefined

\* v.message on a non-nullish value
MessageOf(v) == IF v.t = "error" THEN Str(v.text) ELSE Get(v, "message")

\* JSON.stringify(v) as it appears inside a template literal
Stringify(v) ==
  CASE v.t = "undefined" -> <<"undefined">>
    [] v.t = "null"      -> <<"null">>
    [] v.t = "number"    -> <<ToString(v.id)>>
    [] v.t = "string"    -> <<"\"">> \o v.text \o <<"\"">>
    [] v.t = "error"     -> <<"{", "}">>
    [] OTHER             -> IF v.text # <<>> THEN v.text ELSE <<"{", "}">>

\* deep (structural) equality: identity of objects is ignored
DeepEquals(x, y) == [x EXCEPT !.id = 0] = [y EXCEPT !.id = 0] /\ (x.t = "number" => x.id = y.id)

\* the !== operator negated: primitives by value, objects by identity
StrictEquals(x, y) == x = y

----------------------------------------------------------------------------
(* assertions.mjs *)

\* how a call of a capability settles
Resolved(v) == [kind |-> "resolved", value |-> v]
Rejected(v) == [kind |-> "rejected", value |-> v]
NoOutcome   == [kind |-> "none", value |-> Undefined]

\* what an assertion (or the engine, or a test) throws
NoFailure == [origin |-> "none", kind |-> "none", label |-> "", key |-> "",
              expected |-> <<>>, actual |-> <<>>, value |-> Undefined]
\* the value thrown by the script, passed through untouched
ScriptThrown(v) == [NoFailure EXCEPT !.origin = "script", !.kind = "thrown", !.value = v]
\* `Expected <label> result.<key> to be <expected>, got <actual>`
ResultMismatch(label, key, exp, act) ==
  [NoFailure EXCEPT !.origin = "harness", !.kind = "result-mismatch", !.label = label,
                    !.key = key, !.expected = exp, !.actual = act]
\* `Expected <label> to throw, but it returned successfully`
ExpectedToThrow(label) ==
  [NoFailure EXCEPT !.origin = "harness", !.kind = "expected-to-throw", !.label = label]
\* `Expected error message to contain "<expected>", got "<actual>"`
MessageMismatch(exp, act) ==
  [NoFailure EXCEPT !.origin = "harness", !.kind = "message-mismatch",
                    !.expected = exp, !.actual = act]
\* a TypeError raised by the JavaScript runtime inside the harness
TypeError(label) == [NoFailure EXCEPT !.origin = "runtime", !.kind = "TypeError", !.label = label]

Ok(v)     == [status |-> "ok", value |-> v, failure |-> NoFailure]
Threw(f)  == [status |-> "threw", value |-> Undefined, failure |-> f]
NoResult  == [status |-> "none", value |-> Undefined, failure |-> NoFailure]

\* the state of the two parsers, which the tests of a run leave alone
parserVars == <<yamlDoc, includeCommon, parseResult, rawParts, fixtureText, fixtureResult, reparseResult>>

\* no parser call is under way
ParsersIdle ==
  /\ yamlDoc = <<>>
  /\ includeCommon = FALSE
  /\ parseResult = NoResult
  /\ rawParts = <<>>
  /\ fixtureText = <<>>
  /\ fixtureResult = NoResult
  /\ reparseResult = NoResult

\* the state of the scaffolding CLI, which runs in a process of its own
cliVars == <<fs, fsAtStart, cli>>

\* the scaffolding CLI has not been started
CliIdle ==
  /\ fs = <<>>
  /\ fsAtStart = <<>>
  /\ cli = [status |-> "idle"]

\* expectations: `returns` is a list of <<key, value>> entries in insertion order
Returns(entries) == [hasReturns |-> TRUE, returns |-> entries, hasThrows |-> FALSE, throws |-> <<>>]
Throws(sub)      == [hasReturns |-> FALSE, returns |-> <<>>, hasThrows |-> TRUE, throws |-> sub]
NoTag            == [hasReturns |-> FALSE, returns |-> <<>>, hasThrows |-> FALSE, throws |-> <<>>]

\* indexes of the entries of `expected` whose value differs from the result's
Mismatches(result, expected) ==
  {i \in 1..Len(expected) : ~StrictEquals(Get(result, expected[i][1]), expected[i][2])}

Least(S) == CHOOSE i \in S : \A j \in S : i <= j

\* the for-loop over Object.entries(expected)
CheckEntries(label, result, expected) ==
  IF expected = <<>> THEN Ok(result)
  ELSE IF result.t \in {"undefined", "null"} THEN Threw(TypeError(label))
  ELSE LET bad == Mismatches(result, expected)
       IN  IF bad = {} THEN Ok(result)
           ELSE LET e == expected[Least(bad)]
                IN  Threw(ResultMismatch(label, e[1], Stringify(e[2]),
                                         Stringify(Get(result, e[1]))))

\* a variant that lets a thrown error count as a mismatch
AssertInvokeReturnsSwallow(o, expected) ==
  IF o.kind = "rejected"
  THEN Threw(ExpectedToThrow("invoke"))
  ELSE CheckEntries("invoke", o.value, expected)

AssertInvokeReturns(o, expected) ==
  IF o.kind = "rejected"
  THEN Threw(ScriptThrown(o.value))
  ELSE CheckEntries("invoke", o.value, expected)

AssertErrorReturns(o, expected) ==
  IF o.kind = "rejected"
  THEN Threw(ScriptThrown(o.value))
  ELSE CheckEntries("error handler", o.value, expected)

\* the part shared by assertInvokeThrows and assertErrorThrows after the try/catch
CheckCaught(label, caught, expectedMessage) ==
  IF ~Truthy(caught) THEN Threw(ExpectedToThrow(label))
  ELSE IF expectedMessage # <<>>
       THEN LET m == MessageOf(caught)
            IN  IF m.t # "string" THEN Threw(TypeError(label))
                ELSE IF ~Includes(m.text, expectedMessage)
                     THEN Threw(MessageMismatch(expectedMessage, m.text))
                     ELSE Ok(caught)
       ELSE Ok(caught)

AssertInvokeThrows(o, expectedMessage) ==
  CheckCaught("invoke", IF o.kind = "rejected" THEN o.value ELSE Undefined, expectedMessage)

\* a variant that accepts a handler that resolves
AssertErrorThrowsLenient(o, expectedMessage) ==
  IF o.kind = "rejected" THEN CheckCaught("error handler", o.value, expectedMessage)
  ELSE Ok(Undefined)

AssertErrorThrows(o, expectedMessage) ==
  CheckCaught("error handler", IF o.kind = "rejected" THEN o.value ELSE Undefined,
              expectedMessage)

\* a variant that attaches only the message of the caught error
ErrorParamsMessageOnly(p, caught) ==
  [k \in DOMAIN p \cup {"error"} |-> IF k = "error" THEN MessageOf(caught) ELSE p[k]]

\* { ...params, error: caughtError }
ErrorParams(p, caught) ==
  [k \in DOMAIN p \cup {"error"} |-> IF k = "error" THEN caught ELSE p[k]]

CallArgs(p, c) == [params |-> p, context |-> c]

\* runScenarioHandlers settles: the engine leaves the value undefined
EngineSettles(r) == IF r.status = "ok" THEN Ok(Undefined) ELSE r

\* runScenarioHandlers up to its first await
EngineStart ==
  /\ pc = "engine"
  /\ LET invokeExpect == scenarios[cur].invoke
     IN  IF invokeExpect.hasReturns \/ invokeExpect.hasThrows
         THEN /\ invokeCalls' = Append(invokeCalls, CallArgs(params, context))
              /\ pc' = "invoking"
              /\ UNCHANGED engineResult
         ELSE /\ engineResult' = Ok(Undefined)
              /\ pc' = "engineDone"
              /\ UNCHANGED invokeCalls
  /\ UNCHANGED <<scriptOption, imports, script, action, scenarios, cur, params, context,
                 netConnect, pending, resolvedSteps, scopes, consoleMuted, errorCalls, invokeOutcome, invokeAssert,
                 caughtError, errorOutcome, errorAssert, verified, outcome, failure,
                 cleanups>>
  /\ UNCHANGED <<parserVars, cliVars>>

\* script.invoke settles with outcome o, having performed the requests in `hit`
InvokeSettles(o, hit) ==
  /\ pc = "invoking"
  /\ invokeOutcome' = o
  /\ pending' = pending \ hit
  /\ LET invokeExpect == scenarios[cur].invoke
         errorExpect  == scenarios[cur].error
         r == IF invokeExpect.hasReturns
              THEN AssertInvokeReturns(o, invokeExpect.returns)
              ELSE AssertInvokeThrows(o, invokeExpect.throws)
     IN  /\ invokeAssert' = r
         /\ IF invokeExpect.hasReturns \/ r.status = "threw"
            THEN /\ engineResult' = EngineSettles(r)
                 /\ pc' = "engineDone"
                 /\ UNCHANGED <<caughtError, errorCalls>>
            ELSE /\ caughtError' = r.value
                 /\ IF /\ scenarios[cur].hasError
                       /\ script.hasError
                       /\ (errorExpect.hasReturns \/ errorExpect.hasThrows)
                    THEN /\ errorCalls' = Append(errorCalls,
                                            CallArgs(ErrorParams(params, r.value), context))
                         /\ pc' = "erroring"
                         /\ UNCHANGED engineResult
                    ELSE /\ engineResult' = Ok(Undefined)
                         /\ pc' = "engineDone"
                         /\ UNCHANGED errorCalls
  /\ UNCHANGED <<scriptOption, imports, script, action, scenarios, cur, params, context,
                 netConnect, resolvedSteps, scopes,
                 consoleMuted, invokeCalls, errorOutcome, errorAssert, verified,
                 outcome, failure, cleanups>>
  /\ UNCHANGED <<parserVars, cliVars>>

\* script.error settles with outcome o, having performed the requests in `hit`
ErrorSettles(o, hit) ==
  /\ pc = "erroring"
  /\ errorOutcome' = o
  /\ pending' = pending \ hit
  /\ LET errorExpect == scenarios[cur].error
         r == IF errorExpect.hasReturns
              THEN AssertErrorReturns(o, errorExpect.returns)
              ELSE AssertErrorThrows(o, errorExpect.throws)
     IN  /\ errorAssert' = r
         /\ engineResult' = EngineSettles(r)
         /\ pc' = "engineDone"
  /\ UNCHANGED <<scriptOption, imports, script, action, scenarios, cur, params, context,
                 netConnect, resolvedSteps, scopes,
                 consoleMuted, invokeCalls, errorCalls, invokeOutcome, invokeAssert,
                 caughtError, verified, outcome, failure, cleanups>>
  /\ UNCHANGED <<parserVars, cliVars>>

----------------------------------------------------------------------------
(* parse-fixture.mjs *)

Digits == {"0", "1", "2", "3", "4", "5", "6", "7", "8", "9"}
Whitespace == {" ", "\t", "\r", "\n"}

DigitValue(c) ==
  CASE c = "0" -> 0 [] c = "1" -> 1 [] c = "2" -> 2 [] c = "3" -> 3 [] c = "4" -> 4
    [] c = "5" -> 5 [] c = "6" -> 6 [] c = "7" -> 7 [] c = "8" -> 8 [] OTHER -> 9

NormaliseNewlinesNot(s) == s

\* raw.replace(/\r\n/g, '\n')
RECURSIVE NormaliseNewlines(_)
NormaliseNewlines(s) ==
  IF s = <<>> THEN <<>>
  ELSE IF Len(s) >= 2 /\ s[1] = "\r" /\ s[2] = "\n"
       THEN <<"\n">> \o NormaliseNewlines(SubSeq(s, 3, Len(s)))
       ELSE <<s[1]>> \o NormaliseNewlines(SubSeq(s, 2, Len(s)))

\* String.prototype.indexOf, 0-based, -1 when absent
IndexOf(s, pat) ==
  LET hits == {i \in 0..(Len(s) - Len(pat)) : SubSeq(s, i + 1, i + Len(pat)) = pat}
  IN  IF hits = {} THEN -1 ELSE Least(hits)

\* String.prototype.slice(from, to) with 0-based, end-exclusive indexes
Slice(s, from, to) == SubSeq(s, from + 1, to)

\* String.prototype.split('\n')
RECURSIVE SplitLines(_)
SplitLines(s) ==
  LET i == IndexOf(s, <<"\n">>)
  IN  IF i = -1 THEN <<s>>
      ELSE <<Slice(s, 0, i)>> \o SplitLines(Slice(s, i + 1, Len(s)))

TrimNot(s) == s

\* String.prototype.trim
RECURSIVE Trim(_)
Trim(s) ==
  IF s = <<>> THEN s
  ELSE IF s[1] \in Whitespace THEN Trim(Tail(s))
  ELSE IF s[Len(s)] \in Whitespace THEN Trim(SubSeq(s, 1, Len(s) - 1))
  ELSE s

\* statusLine.match(/^HTTP\/[\d.]+ (\d{3})/): the index of the first digit
\* of the captured group, or 0 when the line does not match
StatusMatch(line) ==
  LET prefix == <<"H", "T", "T", "P", "/">>
      ends == {k \in 6..Len(line) :
                 /\ \A j \in 6..k : line[j] \in Digits \cup {"."}
                 /\ k + 4 <= Len(line)
                 /\ line[k + 1] = " "
                 /\ \A j \in (k + 2)..(k + 4) : line[j] \in Digits}
  IN  IF Len(line) >= 5 /\ SubSeq(line, 1, 5) = prefix /\ ends # {}
      THEN (CHOOSE k \in ends : \A j \in ends : k >= j) + 2
      ELSE 0

ParseHeadersFirstWins(lines, from, headers) ==
  LET held == {i \in from..Len(lines) : IndexOf(lines[i], <<":">>) # -1}
      name(i) == Trim(Slice(lines[i], 0, IndexOf(lines[i], <<":">>)))
      value(i) == Trim(Slice(lines[i], IndexOf(lines[i], <<":">>) + 1, Len(lines[i])))
  IN  [n \in DOMAIN headers \cup {name(i) : i \in held} |->
         IF n \in DOMAIN headers THEN headers[n]
         ELSE value(Least({i \in held : name(i) = n}))]

\* the header loop of parseFixtureString over headerLines[from..]
RECURSIVE ParseHeaders(_, _, _)
ParseHeaders(lines, from, headers) ==
  IF from > Len(lines) THEN headers
  ELSE LET line == lines[from]
           colonIndex == IndexOf(line, <<":">>)
       IN  IF line = <<>> \/ colonIndex = -1
           THEN ParseHeaders(lines, from + 1, headers)
           ELSE LET name  == Trim(Slice(line, 0, colonIndex))
                    value == Trim(Slice(line, colonIndex + 1, Len(line)))
                IN  ParseHeaders(lines, from + 1,
                      [n \in DOMAIN headers \cup {name} |->
                         IF n = name THEN value ELSE headers[n]])

NoFixtureData == [statusCode |-> 0, headers |-> <<>>, body |-> <<>>]

ParseFixtureString(raw) ==
  LET normalised == NormaliseNewlines(raw)
      separatorIndex == IndexOf(normalised, <<"\n", "\n">>)
      headerSection == IF separatorIndex = -1 THEN normalised
                       ELSE Slice(normalised, 0, separatorIndex)
      body == IF separatorIndex = -1 THEN <<>>
              ELSE Slice(normalised, separatorIndex + 2, Len(normalised))
      headerLines == SplitLines(headerSection)
      statusLine == headerLines[1]
      m == StatusMatch(statusLine)
  IN  IF m = 0
      THEN Threw([NoFailure EXCEPT !.origin = "harness", !.kind = "invalid-fixture",
                                    !.actual = statusLine])
      ELSE Ok([statusCode |-> 100 * DigitValue(statusLine[m])
                              + 10 * DigitValue(statusLine[m + 1])
                              + DigitValue(statusLine[m + 2]),
               headers |-> ParseHeaders(headerLines, 2, <<>>),
               body |-> body])

\* the files next to the scenario file, by relative path
Files ==
  [f \in {"200.http", "bad.http"} |->
     IF f = "200.http"
     THEN <<"H", "T", "T", "P", "/", "1", ".", "1", " ", "2", "0", "0", " ", "O", "K",
            "\r", "\n", "X", ":", " ", "y", "\r", "\n", "\r", "\n", "{", "}">>
     ELSE <<"n", "o", "\n">>]

\* parseFixture: readFileSync, then parseFixtureString
ParseFixture(path) ==
  IF path \notin DOMAIN Files
  THEN Threw([NoFailure EXCEPT !.origin = "runtime", !.kind = "ENOENT", !.label = path])
  ELSE ParseFixtureString(Files[path])

----------------------------------------------------------------------------
(* setup-nock.mjs *)

METHOD_MAP == {"GET", "POST", "PUT", "PATCH", "DELETE", "HEAD", "OPTIONS"}

\* String.prototype.toUpperCase on the verbs that occur
ToUpperCase(m) ==
  CASE m = "get" -> "GET" [] m = "post" -> "POST" [] m = "trace" -> "TRACE" [] OTHER -> m

InterceptorPrefersFixture(t, i, step) ==
  [test |-> t, step |-> i, method |-> ToUpperCase(step.request.method),
   url |-> step.request.url, networkError |-> step.networkError /\ ~step.hasFixtureData,
   statusCode |-> IF step.networkError /\ ~step.hasFixtureData THEN 0
                  ELSE step.fixtureData.statusCode]

\* the interceptor that setupNock registers for step number i of test t
Interceptor(t, i, step) ==
  [test |-> t, step |-> i, method |-> ToUpperCase(step.request.method),
   url |-> step.request.url, networkError |-> step.networkError,
   statusCode |-> IF step.networkError THEN 0 ELSE step.fixtureData.statusCode]

\* what a matching outbound call gets from an interceptor: the error given to
\* replyWithError, or the response given to reply
Transport(interceptor) ==
  IF interceptor.networkError
  THEN [kind |-> "error", statusCode |-> 0]
  ELSE [kind |-> "response", statusCode |-> interceptor.statusCode]

InstallStepAnyReply(step) ==
  IF step.request.url = ""
  THEN Threw(TypeError("Invalid URL"))
  ELSE IF ToUpperCase(step.request.method) \notin METHOD_MAP
  THEN Threw([NoFailure EXCEPT !.origin = "harness", !.kind = "unsupported-method",
                                !.label = step.request.method])
  ELSE Ok(Undefined)

\* what one iteration of the loop of setupNock does with a step
InstallStep(step) ==
  IF step.request.url = ""
  THEN Threw(TypeError("Invalid URL"))
  ELSE IF ToUpperCase(step.request.method) \notin METHOD_MAP
  THEN Threw([NoFailure EXCEPT !.origin = "harness", !.kind = "unsupported-method",
                                !.label = step.request.method])
  ELSE IF step.networkError \/ step.hasFixtureData
  THEN Ok(Undefined)
  ELSE Threw([NoFailure EXCEPT !.origin = "harness", !.kind = "no-fixture-data",
                                !.label = step.request.method, !.key = step.request.url])

SetupNockFirstOnly(steps, t) ==
  [installed |-> IF steps = <<>> THEN <<>> ELSE <<Interceptor(t, 1, steps[1])>>,
   result |-> Ok(Undefined)]

\* setupNock: the interceptors it registered and the scopes it returns, or
\* what it threw after registering the interceptors of the steps before
SetupNock(steps, t) ==
  LET bad == {i \in 1..Len(steps) : InstallStep(steps[i]).status = "threw"}
      upto == IF bad = {} THEN Len(steps) ELSE Least(bad) - 1
      installed == [i \in 1..upto |-> Interceptor(t, i, steps[i])]
  IN  [installed |-> installed,
       result |-> IF bad = {} THEN Ok(Undefined) ELSE InstallStep(steps[Least(bad)])]

\* a cleanup that restores networking but leaves the interceptors
CleanupNockKeepsInterceptors(p, n) == [pending |-> p, netConnect |-> TRUE]

\* a cleanup that removes the interceptors but leaves networking blocked
CleanupNockKeepsBlocked(p, n) == [pending |-> {}, netConnect |-> n]

\* cleanupNock: nock.cleanAll(); nock.enableNetConnect()
CleanupNock(p, n) == [pending |-> {}, netConnect |-> TRUE]

\* a scope check that never complains
ScopeDoneAlways(scope, p) == TRUE

\* scope.done() does not throw: the interceptor of the scope was consumed
ScopeDone(scope, p) == scope \notin p

----------------------------------------------------------------------------
(* index.mjs *)

SpreadKeepsFirst(a, b) == [k \in DOMAIN a \cup DOMAIN b |-> IF k \in DOMAIN a THEN a[k] ELSE b[k]]

\* { ...a, ...b } on property maps
Spread(a, b) == [k \in DOMAIN a \cup DOMAIN b |-> IF k \in DOMAIN b THEN b[k] ELSE a[k]]

\* (ctx.<key> || {}) as a property map
SectionOf(ctx, key) == IF key \in DOMAIN ctx /\ Truthy(ctx[key]) THEN ctx[key].props ELSE <<>>

MergeDefaults(act, scenario) ==
  LET actionContext == act.context
      scenarioContext == scenario.context
      merged == Spread(actionContext, scenarioContext)
  IN  [params |-> Spread(act.params, scenario.params),
       context |-> [k \in DOMAIN merged \cup {"secrets", "environment"} |->
                      IF k \in {"secrets", "environment"}
                      THEN Map(0, Spread(SectionOf(actionContext, k),
                                         SectionOf(scenarioContext, k)))
                      ELSE merged[k]]]

ResolveStepLeavesAsIs(step) == Ok(step)

\* the callback of steps.map in resolveStepFixtures
ResolveStep(step) ==
  IF step.hasFixtureData \/ step.networkError THEN Ok(step)
  ELSE IF step.fixture = ""
  THEN Threw([NoFailure EXCEPT !.origin = "harness", !.kind = "unresolved-step",
                                !.label = step.request.method, !.key = step.request.url])
  ELSE LET r == ParseFixture(step.fixture)
       IN  IF r.status = "threw" THEN r
           ELSE Ok([step EXCEPT !.hasFixtureData = TRUE, !.fixtureData = r.value])

ResolveStepFixtures(steps) ==
  LET bad == {i \in 1..Len(steps) : ResolveStep(steps[i]).status = "threw"}
  IN  IF bad = {} THEN Ok([i \in 1..Len(steps) |-> ResolveStep(steps[i]).value])
      ELSE Threw(ResolveStep(steps[Least(bad)]).failure)

NoScript == [loaded |-> FALSE, hasError |-> FALSE, invokeOutcomes |-> {}, errorOutcomes |-> {}]

\* the beforeAll hook: await the import, or take the module that was given
BeforeAll ==
  /\ pc = "beforeAll"
  /\ script' = scriptOption.module
  /\ pc' = "test"
  /\ UNCHANGED <<scriptOption, imports, action, scenarios, cur, params, context,
                 netConnect, pending, resolvedSteps, scopes, consoleMuted, invokeCalls,
                 errorCalls, invokeOutcome, invokeAssert, caughtError, errorOutcome,
                 errorAssert, engineResult, verified, outcome, failure, cleanups>>
  /\ UNCHANGED <<parserVars, cliVars>>

\* the test body up to resolveStepFixtures
TestBegin ==
  /\ pc = "test"
  /\ LET merged == MergeDefaults(action, scenarios[cur])
         r == ResolveStepFixtures(scenarios[cur].steps)
     IN  /\ params' = merged.params
         /\ context' = merged.context
         /\ IF r.status = "threw"
            THEN /\ outcome' = [outcome EXCEPT ![cur] = "fail"]
                 /\ failure' = r.failure
                 /\ pc' = "afterEach"
                 /\ UNCHANGED resolvedSteps
            ELSE /\ resolvedSteps' = r.value
                 /\ pc' = "setup"
                 /\ UNCHANGED <<outcome, failure>>
  /\ UNCHANGED <<scriptOption, imports, script, action, scenarios, cur, netConnect,
                 pending, scopes, consoleMuted, invokeCalls, errorCalls, invokeOutcome,
                 invokeAssert, caughtError, errorOutcome, errorAssert, engineResult,
                 verified, cleanups>>
  /\ UNCHANGED <<parserVars, cliVars>>

Range(f) == {f[i] : i \in DOMAIN f}

\* the test body from nock.disableNetConnect() to the entry of the try block
TestSetup ==
  /\ pc = "setup"
  /\ netConnect' = FALSE
  /\ LET s == SetupNock(resolvedSteps, cur)
     IN  /\ pending' = pending \cup Range(s.installed)
         /\ IF s.result.status = "threw"
            THEN /\ outcome' = [outcome EXCEPT ![cur] = "fail"]
                 /\ failure' = s.result.failure
                 /\ pc' = "afterEach"
                 /\ UNCHANGED <<scopes, consoleMuted>>
            ELSE /\ scopes' = s.installed
                 /\ consoleMuted' = TRUE
                 /\ pc' = "engine"
                 /\ UNCHANGED <<outcome, failure>>
  /\ UNCHANGED <<scriptOption, imports, script, action, scenarios, cur, params, context,
                 resolvedSteps, invokeCalls, errorCalls, invokeOutcome, invokeAssert,
                 caughtError, errorOutcome, errorAssert, engineResult, verified,
                 cleanups>>
  /\ UNCHANGED <<parserVars, cliVars>>

\* a variant that checks the scopes whatever the engine did
DoneLoopEntersAlways(r) == TRUE

\* the scope.done() loop is reached: runScenarioHandlers did not throw
DoneLoopEnters(r) == r.status = "ok"

\* the test body after `await runScenarioHandlers(...)`: the scope.done()
\* loop, and the finally block
TestAfterEngine ==
  /\ pc = "engineDone"
  /\ consoleMuted' = FALSE
  /\ pc' = "afterEach"
  /\ verified' = DoneLoopEnters(engineResult)
  /\ LET bad == {i \in 1..Len(scopes) : ~ScopeDone(scopes[i], pending)}
     IN  IF engineResult.status = "threw"
         THEN /\ outcome' = [outcome EXCEPT ![cur] = "fail"]
              /\ failure' = engineResult.failure
         ELSE IF bad = {}
         THEN /\ outcome' = [outcome EXCEPT ![cur] = "pass"]
              /\ UNCHANGED failure
         ELSE /\ outcome' = [outcome EXCEPT ![cur] = "fail"]
              /\ failure' = [NoFailure EXCEPT !.origin = "nock",
                                              !.kind = "mocks-not-done",
                                              !.label = scopes[Least(bad)].method,
                                              !.key = scopes[Least(bad)].url]
  /\ UNCHANGED <<scriptOption, imports, script, action, scenarios, cur, params, context,
                 netConnect, pending, resolvedSteps, scopes, invokeCalls, errorCalls,
                 invokeOutcome, invokeAssert, caughtError, errorOutcome, errorAssert,
                 engineResult, cleanups>>
  /\ UNCHANGED <<parserVars, cliVars>>

\* the afterEach hook, after which the runner moves to the next test
AfterEach ==
  /\ pc = "afterEach"
  /\ LET c == CleanupNock(pending, netConnect)
     IN  /\ pending' = c.pending
         /\ netConnect' = c.netConnect
  /\ cleanups' = [cleanups EXCEPT ![cur] = @ + 1]
  /\ IF cur < Len(scenarios)
     THEN cur' = cur + 1 /\ pc' = "test"
     ELSE cur' = cur /\ pc' = "finished"
  /\ params' = <<>>
  /\ context' = <<>>
  /\ resolvedSteps' = <<>>
  /\ scopes' = <<>>
  /\ invokeCalls' = <<>>
  /\ errorCalls' = <<>>
  /\ invokeOutcome' = NoOutcome
  /\ invokeAssert' = NoResult
  /\ caughtError' = Undefined
  /\ errorOutcome' = NoOutcome
  /\ errorAssert' = NoResult
  /\ engineResult' = NoResult
  /\ verified' = FALSE
  /\ failure' = NoFailure
  /\ UNCHANGED <<scriptOption, imports, script, action, scenarios, consoleMuted, outcome>>
  /\ UNCHANGED <<parserVars, cliVars>>

----------------------------------------------------------------------------
(* Inputs *)

Keys == {"a", "b", "c"}

\* values a script can put in a result, or a scenario file in `returns`
LeafValues == {Num(1), Num(2), Obj(1, <<"[", "1", "]">>), Obj(2, <<"[", "1", "]">>)}

PropertyMaps == UNION {[K -> LeafValues] : K \in SUBSET Keys}

\* everything script.invoke / script.error may resolve with
ResolvedValues == {Map(0, f) : f \in PropertyMaps} \cup {Undefined, Null}

\* everything script.invoke / script.error may throw
ThrownValues ==
  {Err(1, m) : m \in StringsUpTo(MaxMsgLen)}
    \cup {Undefined, Null, Num(0), Str(<<>>), Str(<<"a">>), Map(0, <<>>)}

AllOutcomes == {Resolved(v) : v \in ResolvedValues} \cup {Rejected(v) : v \in ThrownValues}

Entry(k, v) == <<k, v>>

InvokeExpectations ==
  {Returns(<<>>),
   Returns(<<Entry("a", Num(1)), Entry("b", Obj(1, <<"[", "1", "]">>))>>),
   Returns(<<Entry("b", Num(2)), Entry("a", Num(1))>>),
   Throws(<<>>), Throws(<<"a">>), Throws(<<"a", "b">>),
   NoTag}

ErrorExpectations ==
  {Returns(<<Entry("a", Num(1))>>), Throws(<<>>), Throws(<<"a">>), NoTag}

Scenario(name, steps, inv, hasErr, err) ==
  [name |-> name, steps |-> steps, params |-> <<>>, context |-> <<>>,
   invoke |-> inv, hasError |-> hasErr, error |-> err]

\* scenarios handed to runScenarioHandlers directly
EngineScenarios ==
  {Scenario("s", <<>>, i, FALSE, NoTag) : i \in InvokeExpectations}
    \cup {Scenario("s", <<>>, i, TRUE, e) : i \in InvokeExpectations, e \in ErrorExpectations}

EngineScripts ==
  {[loaded |-> TRUE, hasError |-> h, invokeOutcomes |-> AllOutcomes,
    errorOutcomes |-> IF h THEN AllOutcomes ELSE {}] : h \in BOOLEAN}

EngineParams ==
  {<<>>, [k \in {"a"} |-> Num(1)], [k \in {"a", "error"} |-> Str(<<"a">>)]}

EngineContext == [k \in {"secrets"} |-> Map(0, <<>>)]

----------------------------------------------------------------------------
(* runScenarioHandlers called on its own *)

InitEngine ==
  /\ script \in EngineScripts
  /\ scriptOption = [kind |-> "module", module |-> script]
  /\ imports = 0
  /\ action = [params |-> <<>>, context |-> <<>>]
  /\ scenarios \in {<<s>> : s \in EngineScenarios}
  /\ cur = 1
  /\ pc = "engine"
  /\ params \in EngineParams
  /\ context = EngineContext
  /\ netConnect = TRUE
  /\ pending = {}
  /\ resolvedSteps = <<>>
  /\ scopes = <<>>
  /\ consoleMuted = FALSE
  /\ invokeCalls = <<>>
  /\ errorCalls = <<>>
  /\ invokeOutcome = NoOutcome
  /\ invokeAssert = NoResult
  /\ caughtError = Undefined
  /\ errorOutcome = NoOutcome
  /\ errorAssert = NoResult
  /\ engineResult = NoResult
  /\ verified = FALSE
  /\ outcome = <<"none">>
  /\ failure = NoFailure
  /\ cleanups = <<0>>
  /\ ParsersIdle /\ CliIdle

NextEngine ==
  \/ EngineStart
  \/ \E o \in script.invokeOutcomes, hit \in SUBSET pending : InvokeSettles(o, hit)
  \/ \E o \in script.errorOutcomes, hit \in SUBSET pending : ErrorSettles(o, hit)

SpecEngine == InitEngine /\ [][NextEngine]_vars

----------------------------------------------------------------------------
(* runScenarios: one test per scenario, run in order by the test runner *)

FixtureData200 ==
  [statusCode |-> 200, headers |-> [h \in {<<"X">>} |-> <<"y">>], body |-> <<"{", "}">>]

Request(m, u) == [method |-> m, url |-> u]

StepWithData(m, u) ==
  [request |-> Request(m, u), fixture |-> "", hasFixtureData |-> TRUE,
   fixtureData |-> FixtureData200, networkError |-> FALSE]
StepWithFile(m, u, f) ==
  [request |-> Request(m, u), fixture |-> f, hasFixtureData |-> FALSE,
   fixtureData |-> NoFixtureData, networkError |-> FALSE]
StepNetworkError(m, u) ==
  [request |-> Request(m, u), fixture |-> "", hasFixtureData |-> FALSE,
   fixtureData |-> NoFixtureData, networkError |-> TRUE]

GoodSteps ==
  {<<StepWithData("GET", "https://x/1")>>,
   <<StepWithFile("post", "https://x/1", "200.http"), StepNetworkError("GET", "https://x/2")>>}

BadSteps ==
  {<<StepWithData("GET", "https://x/1"), StepWithFile("GET", "https://x/2", "missing.http")>>,
   <<StepWithFile("GET", "https://x/1", "bad.http")>>,
   <<StepWithData("GET", "https://x/1"), StepWithFile("GET", "https://x/2", "")>>,
   <<StepWithData("GET", "https://x/1"), StepWithData("trace", "https://x/2")>>}

RunInvokeExpectations == {Returns(<<Entry("a", Num(1))>>), Throws(<<>>), Throws(<<"a">>), NoTag}

RunScenarios ==
  {Scenario("ok", st, i, FALSE, NoTag) : st \in GoodSteps, i \in RunInvokeExpectations}
    \cup {Scenario("err", st, Throws(<<"a">>), TRUE, e) :
            st \in GoodSteps, e \in {Returns(<<Entry("a", Num(1))>>), Throws(<<"a">>)}}
    \cup {[Scenario("bad", st, Returns(<<>>), FALSE, NoTag)
             EXCEPT !.params = [k \in {"b", "c"} |-> Num(2)],
                    !.context = [k \in {"secrets"} |-> Map(0, [n \in {"T"} |-> Str(<<"b">>)])]] :
            st \in BadSteps}

RunAction ==
  [params |-> [k \in {"a", "b"} |-> Num(1)],
   context |-> [k \in {"secrets", "tenant"} |->
                  IF k = "secrets" THEN Map(0, [n \in {"T", "U"} |-> Str(<<"a">>)])
                  ELSE Str(<<"A">>)]]

RunInvokeOutcomes ==
  {Resolved(Map(0, [k \in {"a"} |-> Num(1)])), Resolved(Map(0, [k \in {"a"} |-> Num(2)])),
   Rejected(Err(1, <<"a", "b">>)), Rejected(Undefined)}

RunErrorOutcomes ==
  {Resolved(Map(0, [k \in {"a"} |-> Num(1)])), Rejected(Err(1, <<"a", "b">>)), Rejected(Err(2, <<"b">>))}

RunModules ==
  {[loaded |-> TRUE, hasError |-> h, invokeOutcomes |-> RunInvokeOutcomes,
    errorOutcomes |-> IF h THEN RunErrorOutcomes ELSE {}] : h \in BOOLEAN}

ScriptOptions == {[kind |-> k, module |-> m] : k \in {"path", "module"}, m \in RunModules}

\* the state when runScenarios has returned and the tests are registered
Init ==
  /\ scriptOption \in ScriptOptions
  /\ imports = IF scriptOption.kind = "path" THEN 1 ELSE 0
  /\ script = NoScript
  /\ action = RunAction
  /\ scenarios \in [1..NumScenarios -> RunScenarios]
  /\ cur = 1
  /\ pc = "beforeAll"
  /\ params = <<>>
  /\ context = <<>>
  /\ netConnect = TRUE
  /\ pending = {}
  /\ resolvedSteps = <<>>
  /\ scopes = <<>>
  /\ consoleMuted = FALSE
  /\ invokeCalls = <<>>
  /\ errorCalls = <<>>
  /\ invokeOutcome = NoOutcome
  /\ invokeAssert = NoResult
  /\ caughtError = Undefined
  /\ errorOutcome = NoOutcome
  /\ errorAssert = NoResult
  /\ engineResult = NoResult
  /\ verified = FALSE
  /\ outcome = [i \in 1..NumScenarios |-> "none"]
  /\ failure = NoFailure
  /\ cleanups = [i \in 1..NumScenarios |-> 0]
  /\ ParsersIdle /\ CliIdle

Next ==
  \/ BeforeAll
  \/ TestBegin
  \/ TestSetup
  \/ EngineStart
  \/ \E o \in script.invokeOutcomes, hit \in SUBSET pending : InvokeSettles(o, hit)
  \/ \E o \in script.errorOutcomes, hit \in SUBSET pending : ErrorSettles(o, hit)
  \/ TestAfterEngine
  \/ AfterEach

Spec == Init /\ [][Next]_vars

----------------------------------------------------------------------------
(* Properties of the assertion engine *)

InvokeExpect == scenarios[cur].invoke
ErrorExpect  == scenarios[cur].error

ExpectsReturns(e) == e.hasReturns
ExpectsThrows(e)  == ~e.hasReturns /\ e.hasThrows

ErrorCalled  == Len(errorCalls) > 0
InvokeCalled == Len(invokeCalls) > 0
InvokeSettled == invokeOutcome.kind # "none"
ErrorSettled  == errorOutcome.kind # "none"

\* the thrown value carries a message that contains `sub` (anything thrown
\* satisfies the empty substring)
MessageSatisfies(v, sub) == sub = <<>> \/ (v.t = "error" /\ Includes(v.text, sub))

\* every expected entry is found, identical, in the result
AllEntriesIdentical(result, expected) ==
  \A i \in 1..Len(expected) :
     /\ expected[i][1] \in DOMAIN result.props
     /\ result.props[expected[i][1]] = expected[i][2]

\* the returns-matching rule, for one settled call
ReturnsRule(label, o, expected, r) ==
  LET wrong == {i \in 1..Len(expected) :
                  \/ expected[i][1] \notin DOMAIN o.value.props
                  \/ o.value.props[expected[i][1]] # expected[i][2]}
  IN  /\ r.status = "ok" <=> AllEntriesIdentical(o.value, expected)
      /\ r.status = "ok" => r.value = o.value
      /\ r.status # "ok" =>
           \E i \in wrong :
              /\ \A j \in wrong : i <= j
              /\ r.failure.kind = "result-mismatch"
              /\ r.failure.label = label
              /\ r.failure.key = expected[i][1]
              /\ r.failure.expected = Stringify(expected[i][2])
              /\ r.failure.actual = Stringify(Get(o.value, expected[i][1]))

\* C1: the error capability is called if and only if the invoke expectation
\* is `throws`, invoke threw, the thrown message satisfied the expected
\* substring, the scenario has an error expectation (`returns` or `throws`)
\* and the script has an error capability; it is never called when the
\* invoke expectation is `returns` nor before invoke has thrown; when it is not called the outcome of the invoke phase
\* is the final outcome.
C1_ErrorCalledIff ==
  /\ pc \in {"erroring", "engineDone"} =>
       (ErrorCalled <=>
          /\ ExpectsThrows(InvokeExpect)
          /\ invokeOutcome.kind = "rejected"
          /\ MessageSatisfies(invokeOutcome.value, InvokeExpect.throws)
          /\ scenarios[cur].hasError
          /\ (ErrorExpect.hasReturns \/ ErrorExpect.hasThrows)
          /\ script.hasError)
  /\ (ErrorCalled /\ ExpectsReturns(InvokeExpect)) = FALSE
  /\ ErrorCalled => invokeOutcome.kind = "rejected"
  /\ (pc = "engineDone" /\ ~ErrorCalled /\ InvokeCalled) =>
       engineResult = EngineSettles(invokeAssert)

\* C2: returns-matching rule, for the invoke phase and the error phase: a
\* resolved result passes if and only if every expected key holds the
\* identical value; extra keys are ignored, a missing key is a mismatch, the
\* first mismatching key is reported with the expected and the actual value,
\* and on success the result is returned unchanged.
C2_ReturnsMatching ==
  /\ (InvokeSettled /\ ExpectsReturns(InvokeExpect)
        /\ invokeOutcome.kind = "resolved" /\ invokeOutcome.value.t = "object") =>
       ReturnsRule("invoke", invokeOutcome, InvokeExpect.returns, invokeAssert)
  /\ (ErrorSettled /\ ExpectsReturns(ErrorExpect)
        /\ errorOutcome.kind = "resolved" /\ errorOutcome.value.t = "object") =>
       ReturnsRule("error handler", errorOutcome, ErrorExpect.returns, errorAssert)

\* a result that has an extra key and, under key b, a value that is
\* structurally equal to the expected one without being the same object
C2_Witness ==
  /\ InvokeSettled /\ ExpectsReturns(InvokeExpect)
  /\ invokeOutcome.kind = "resolved"
  /\ "c" \in DOMAIN invokeOutcome.value.props
  /\ invokeAssert.status = "threw"
  /\ invokeAssert.failure.key = "b"
  /\ \E i \in 1..Len(InvokeExpect.returns) :
        /\ InvokeExpect.returns[i][1] = "b"
        /\ DeepEquals(InvokeExpect.returns[i][2], Get(invokeOutcome.value, "b"))

\* C3: with a `throws` expectation, 'Expected invoke to throw' is raised if
\* and only if the invoke call resolved; never when it rejected, whatever the
\* thrown value.
C3_ExpectedToThrowIffResolved ==
  (InvokeSettled /\ ExpectsThrows(InvokeExpect)) =>
     (invokeAssert.failure.kind = "expected-to-throw" <=> invokeOutcome.kind = "resolved")

\* the throws-matching rule, for one call that rejected with `thrown`
ThrowsRule(thrown, sub, r) ==
  /\ sub = <<>> => (r.status = "ok" /\ r.value = thrown)
  /\ sub # <<>> =>
       /\ r.status = "ok" <=> MessageSatisfies(thrown, sub)
       /\ r.status = "ok" => r.value = thrown
       /\ r.status # "ok" => (r.failure.kind = "message-mismatch" /\ r.failure.expected = sub)

\* C4: throws-matching rule, for assertInvokeThrows and assertErrorThrows:
\* for any thrown value an empty expected substring passes and returns the
\* thrown value; a non-empty one passes exactly when the thrown error's
\* message contains it, and otherwise fails with a message-mismatch failure
\* and in no other way.
C4_ThrowsMatching ==
  /\ (InvokeSettled /\ ExpectsThrows(InvokeExpect) /\ invokeOutcome.kind = "rejected") =>
       ThrowsRule(invokeOutcome.value, InvokeExpect.throws, invokeAssert)
  /\ (ErrorSettled /\ ExpectsThrows(ErrorExpect) /\ errorOutcome.kind = "rejected") =>
       ThrowsRule(errorOutcome.value, ErrorExpect.throws, errorAssert)

\* C5: with an error expectation of `throws`, once the error phase is
\* entered the scenario fails with 'Expected error handler to throw' if the
\* error capability resolves, passes if it rejects with a message containing
\* the expected substring, and fails with a message mismatch if it rejects
\* with a message that does not contain it.
C5_ErrorThrows ==
  (ErrorSettled /\ ExpectsThrows(ErrorExpect)) =>
     /\ errorOutcome.kind = "resolved" =>
          /\ engineResult.status = "threw"
          /\ engineResult.failure.kind = "expected-to-throw"
          /\ engineResult.failure.label = "error handler"
     /\ (errorOutcome.kind = "rejected" /\ errorOutcome.value.t = "error") =>
          IF Includes(errorOutcome.value.text, ErrorExpect.throws)
          THEN engineResult.status = "ok"
          ELSE /\ engineResult.status = "threw"
               /\ engineResult.failure.kind = "message-mismatch"
               /\ engineResult.failure.expected = ErrorExpect.throws
               /\ engineResult.failure.actual = errorOutcome.value.text

\* the error capability resolved although it was expected to throw
C5_Witness ==
  /\ ErrorSettled /\ ExpectsThrows(ErrorExpect)
  /\ ErrorExpect.throws # <<>>
  /\ errorOutcome.kind = "resolved"
  /\ pc = "engineDone"

\* C6: the error capability receives the merged params plus the key `error`
\* holding the very error object caught from invoke, and the context that
\* invoke received; the params passed to invoke gain no `error` key.
C6_ErrorParams ==
  ErrorCalled =>
     LET sent == errorCalls[1] IN
       /\ DOMAIN sent.params = DOMAIN invokeCalls[1].params \cup {"error"}
       /\ sent.params["error"] = invokeOutcome.value
       /\ \A k \in DOMAIN invokeCalls[1].params \ {"error"} :
             sent.params[k] = invokeCalls[1].params[k]
       /\ sent.context = invokeCalls[1].context
       /\ params = invokeCalls[1].params
       /\ Len(errorCalls) = 1

\* the error capability was called for params that have no `error` key
C6_Witness ==
  /\ ErrorCalled
  /\ "a" \in DOMAIN params
  /\ "error" \notin DOMAIN params
  /\ invokeOutcome.value.t = "error"

\* C7: when a return is expected and the called capability throws, the
\* scenario fails with that same thrown value, passed through unchanged.
C7_ScriptErrorsPassThrough ==
  /\ (InvokeSettled /\ ExpectsReturns(InvokeExpect) /\ invokeOutcome.kind = "rejected") =>
       /\ pc = "engineDone"
       /\ engineResult = Threw(ScriptThrown(invokeOutcome.value))
  /\ (ErrorSettled /\ ExpectsReturns(ErrorExpect) /\ errorOutcome.kind = "rejected") =>
       /\ pc = "engineDone"
       /\ engineResult = Threw(ScriptThrown(errorOutcome.value))

\* invoke threw although a return was expected
C7_Witness ==
  /\ InvokeSettled /\ ExpectsReturns(InvokeExpect)
  /\ InvokeExpect.returns # <<>>
  /\ invokeOutcome.kind = "rejected"
  /\ invokeOutcome.value.t = "error"

----------------------------------------------------------------------------
(* Properties of the scenario tests *)

\* the test body of the current scenario has ended and afterEach is due
BodyEnded == pc = "afterEach"
EngineRan == engineResult.status # "none"

AllTriggered == \A i \in 1..Len(scopes) : scopes[i] \notin pending

\* C8 as stated: the check that every interceptor was triggered is performed
\* whatever the outcome of the assertion engine.
C8_CheckedRegardless ==
  (BodyEnded /\ EngineRan) => verified

\* C8, amended: the check that every interceptor was triggered is performed
\* exactly when the assertion engine passed; when the engine failed the test
\* fails with the engine's failure and the check is skipped.
C8_CheckedIffEnginePassed ==
  (BodyEnded /\ EngineRan) =>
     /\ verified <=> engineResult.status = "ok"
     /\ engineResult.status = "threw" =>
          (outcome[cur] = "fail" /\ failure = engineResult.failure)

\* the engine failed, an interceptor is still untriggered, nothing checked it
C8_Witness ==
  /\ BodyEnded
  /\ engineResult.status = "threw"
  /\ ~AllTriggered
  /\ ~verified

\* C9: a scenario whose assertions pass still fails if an interceptor of one
\* of its steps was never triggered; a test passes only if the assertions
\* pass and the interceptor of every step was triggered.
C9_PassNeedsAllTriggered ==
  BodyEnded =>
     (outcome[cur] = "pass" <=>
        /\ engineResult.status = "ok"
        /\ Len(scopes) = Len(scenarios[cur].steps)
        /\ AllTriggered)

\* the assertions passed, yet the test failed on an untriggered interceptor
C9_Witness ==
  /\ BodyEnded
  /\ InvokeCalled
  /\ engineResult.status = "ok"
  /\ ~AllTriggered
  /\ outcome[cur] = "fail"
  /\ failure.kind = "mocks-not-done"

TestEnded(i) == i < cur \/ pc = "finished"

\* C10: teardown runs exactly once after every scenario test, whichever step
\* of the test failed or if none did; after it no interceptor is active and
\* real networking is enabled.
C10_TeardownOncePerTest ==
  /\ \A i \in 1..Len(scenarios) : cleanups[i] = IF TestEnded(i) THEN 1 ELSE 0
  /\ pc \in {"test", "finished"} => (pending = {} /\ netConnect)

\* the first test failed while installing its second interceptor, the first
\* one being installed already, and teardown has run once
C10_Witness ==
  /\ cur = 2 /\ pc = "test"
  /\ outcome[1] = "fail"
  /\ cleanups[1] = 1
  /\ Len(scenarios[1].steps) = 2
  /\ scenarios[1].steps[2].request.method = "trace"
  /\ pending = {} /\ netConnect

----------------------------------------------------------------------------
(* parse-scenarios.mjs *)
(* A document, a scenario, a step and a request are JavaScript objects:    *)
(* functions from their own keys to values.  A name is a string whose text *)
(* is one word, compared as a whole.                                       *)

\* `key in o`, for an own key
Has(o, key) == key \in DOMAIN o

\* `!o[key]` for a key that holds a JavaScript value
Falsy(o, key) == ~Has(o, key) \/ ~Truthy(o[key])

\* the object after `delete o[k]` for every k in keys
Delete(o, keys) == [k \in DOMAIN o \ keys |-> o[k]]

\* new Error(...) of the parser: the field names its message quotes, and the
\* scenario name or index its template literal interpolates
MissingField(where, quoted, interpolated) ==
  [NoFailure EXCEPT !.origin = "harness", !.kind = "missing-field", !.label = where,
                    !.expected = quoted, !.key = interpolated]

\* the built-in templates, in declaration order
COMMON_SCENARIOS ==
  <<[name |-> Str(<<"handles 401 unauthorized">>), networkError |-> FALSE, statusCode |-> 401,
     headers |-> [h \in {"Content-Type"} |-> <<"application/json">>],
     body |-> <<"{\"error\":\"Unauthorized\",\"message\":\"Invalid or expired token\"}">>],
    [name |-> Str(<<"handles 403 forbidden">>), networkError |-> FALSE, statusCode |-> 403,
     headers |-> [h \in {"Content-Type"} |-> <<"application/json">>],
     body |-> <<"{\"error\":\"Forbidden\",\"message\":\"Insufficient permissions\"}">>],
    [name |-> Str(<<"handles 429 rate limit">>), networkError |-> FALSE, statusCode |-> 429,
     headers |-> [h \in {"Content-Type", "Retry-After"} |->
                    IF h = "Retry-After" THEN <<"30">> ELSE <<"application/json">>],
     body |-> <<"{\"error\":\"Too Many Requests\",\"message\":\"Rate limit exceeded\"}">>],
    [name |-> Str(<<"handles 500 internal server error">>), networkError |-> FALSE, statusCode |-> 500,
     headers |-> [h \in {"Content-Type"} |-> <<"application/json">>],
     body |-> <<"{\"error\":\"Internal Server Error\"}">>],
    [name |-> Str(<<"handles 502 bad gateway">>), networkError |-> FALSE, statusCode |-> 502,
     headers |-> [h \in {"Content-Type"} |-> <<"text/html">>],
     body |-> <<"<html><body>Bad Gateway</body></html>">>],
    [name |-> Str(<<"handles 503 service unavailable">>), networkError |-> FALSE, statusCode |-> 503,
     headers |-> [h \in {"Content-Type"} |-> <<"application/json">>],
     body |-> <<"{\"error\":\"Service Unavailable\"}">>],
    [name |-> Str(<<"handles 504 gateway timeout">>), networkError |-> FALSE, statusCode |-> 504,
     headers |-> [h \in {"Content-Type"} |-> <<"text/html">>],
     body |-> <<"<html><body>Gateway Timeout</body></html>">>],
    [name |-> Str(<<"handles network error">>), networkError |-> TRUE, statusCode |-> 0,
     headers |-> <<>>, body |-> <<>>]>>

GenerateWholeRequest(common, baseRequest) ==
  [steps |-> IF common.networkError
             THEN <<[request |-> baseRequest, networkError |-> TRUE]>>
             ELSE <<[request |-> baseRequest,
                     fixtureData |-> [statusCode |-> common.statusCode,
                                      headers |-> common.headers,
                                      body |-> common.body]]>>,
   invoke |-> Throws(<<>>)]

\* common.generate(baseRequest): one step aimed at the method and URL of
\* baseRequest, expected to make invoke throw
Generate(common, baseRequest) ==
  LET request == [method |-> baseRequest.method, url |-> baseRequest.url]
  IN  [steps |-> IF common.networkError
                 THEN <<[request |-> request, networkError |-> TRUE]>>
                 ELSE <<[request |-> request,
                         fixtureData |-> [statusCode |-> common.statusCode,
                                          headers |-> common.headers,
                                          body |-> common.body]]>>,
       invoke |-> Throws(<<>>)]

\* `${scenario.name}` inside a message
NameWord(scenario) ==
  IF ~Has(scenario, "name") THEN "undefined"
  ELSE IF scenario.name.text = <<>> THEN "" ELSE scenario.name.text[1]

NormaliseScenarioKeepShorthand(scenario) ==
  IF Has(scenario, "steps") THEN Ok(scenario)
  ELSE IF ~Has(scenario, "request")
  THEN Threw(MissingField("scenario", <<"request", "steps">>, NameWord(scenario)))
  ELSE Ok(scenario
            @@ [steps |-> <<[request |-> scenario.request,
                             fixture |-> IF Has(scenario, "fixture") THEN scenario.fixture
                                         ELSE Undefined]>>])

\* the shorthand form (top-level request and fixture) becomes a one-step list
NormaliseScenario(scenario) ==
  IF Has(scenario, "steps") THEN Ok(scenario)
  ELSE IF ~Has(scenario, "request")
  THEN Threw(MissingField("scenario", <<"request", "steps">>, NameWord(scenario)))
  ELSE Ok(Delete(scenario, {"request", "fixture"})
            @@ [steps |-> <<[request |-> scenario.request,
                             fixture |-> IF Has(scenario, "fixture") THEN scenario.fixture
                                         ELSE Undefined]>>])

ValidateScenarioNameOnly(scenario, index) ==
  IF Falsy(scenario, "name")
  THEN Threw(MissingField("scenario", <<"name">>, ToString(index)))
  ELSE Ok(Undefined)

\* index is 0-based, as Array.prototype.map passes it
ValidateScenario(scenario, index) ==
  IF Falsy(scenario, "name")
  THEN Threw(MissingField("scenario", <<"name">>, ToString(index)))
  ELSE IF ~Has(scenario, "invoke")
  THEN Threw(MissingField("scenario", <<"invoke">>, NameWord(scenario)))
  ELSE Ok(Undefined)

MapScenarioNormaliseFirst(s, i) ==
  LET normalised == NormaliseScenario(s)
  IN  IF normalised.status = "threw" THEN normalised
      ELSE IF ValidateScenario(s, i).status = "threw" THEN ValidateScenario(s, i)
      ELSE normalised

\* the callback of doc.scenarios.map: validateScenario, then normaliseScenario
MapScenario(s, i) ==
  LET validated == ValidateScenario(s, i)
  IN  IF validated.status = "threw" THEN validated ELSE NormaliseScenario(s)

UserNamesHasNothing(userNames, name) == FALSE

\* userNames.has(name)
UserNamesHas(userNames, name) == name \in userNames

\* allScenarios.push(...) for each of `more`, in order
Push(allScenarios, more) == allScenarios \o more

\* {name: common.name, ...generated, _common: true}
Synthesize(common, templateRequest) ==
  [name |-> common.name] @@ Generate(common, templateRequest) @@ [_common |-> TRUE]

\* doc is what yaml.load returned: a mapping whose `scenarios`, when present,
\* is [isArray, items]
ParseScenariosString(doc, withCommon) ==
  IF Falsy(doc, "action")
  THEN Threw(MissingField("file", <<"action">>, ""))
  ELSE IF ~Has(doc, "scenarios") \/ ~doc.scenarios.isArray \/ Len(doc.scenarios.items) = 0
  THEN Threw(MissingField("file", <<"scenarios">>, ""))
  ELSE
    LET items == doc.scenarios.items
        mapped == [i \in 1..Len(items) |-> MapScenario(items[i], i - 1)]
        thrown == {i \in 1..Len(items) : mapped[i].status = "threw"}
        userScenarios == [i \in 1..Len(items) |-> mapped[i].value]
        userNames == {userScenarios[i].name : i \in 1..Len(items)}
        unused == SelectSeq(COMMON_SCENARIOS, LAMBDA common : ~UserNamesHas(userNames, common.name))
        templateRequest == userScenarios[1].steps[1].request
    IN  IF thrown # {} THEN mapped[Least(thrown)]
        ELSE IF ~withCommon
        THEN Ok([action |-> doc.action, scenarios |-> userScenarios])
        ELSE IF userScenarios[1].steps = <<>>
        THEN Threw(TypeError("request"))
        ELSE Ok([action |-> doc.action,
                 scenarios |-> Push(userScenarios,
                                    [i \in 1..Len(unused) |-> Synthesize(unused[i], templateRequest)])])

----------------------------------------------------------------------------
(* parseScenariosString called on its own *)

MaxScenarios == 2

\* the state of a run, which the parsers leave alone
runVars == <<scriptOption, imports, script, action, scenarios, cur, params, context,
             netConnect, pending, resolvedSteps, scopes, consoleMuted, invokeCalls,
             errorCalls, invokeOutcome, invokeAssert, caughtError, errorOutcome,
             errorAssert, engineResult, verified, outcome, failure, cleanups>>

\* no run has been asked for
NoRun ==
  /\ scriptOption = [kind |-> "module", module |-> NoScript]
  /\ imports = 0
  /\ script = NoScript
  /\ action = [params |-> <<>>, context |-> <<>>]
  /\ scenarios = <<>>
  /\ cur = 1
  /\ params = <<>>
  /\ context = <<>>
  /\ netConnect = TRUE
  /\ pending = {}
  /\ resolvedSteps = <<>>
  /\ scopes = <<>>
  /\ consoleMuted = FALSE
  /\ invokeCalls = <<>>
  /\ errorCalls = <<>>
  /\ invokeOutcome = NoOutcome
  /\ invokeAssert = NoResult
  /\ caughtError = Undefined
  /\ errorOutcome = NoOutcome
  /\ errorAssert = NoResult
  /\ engineResult = NoResult
  /\ verified = FALSE
  /\ outcome = <<>>
  /\ failure = NoFailure
  /\ cleanups = <<>>

\* requests written in a scenario file; the first carries headers
PostRequest ==
  [method |-> "POST", url |-> "https://x/1",
   headers |-> [h \in {"Authorization"} |-> <<"Bearer t">>]]
GetRequest == [method |-> "GET", url |-> "https://x/2"]

\* the two ways of writing the HTTP exchange of a scenario; nothing stops a
\* file from using both in one entry
Shorthand == [request |-> PostRequest, fixture |-> Str(<<"200.http">>)]
StepList ==
  [steps |-> <<[request |-> GetRequest, fixture |-> Str(<<"200.http">>)],
               [request |-> PostRequest, fixture |-> Str(<<"404.http">>)]>>]

UserNames ==
  {Str(<<"u1">>), Str(<<"u2">>), COMMON_SCENARIOS[1].name, COMMON_SCENARIOS[8].name}

\* a scenario entry with every required field
UserScenario(name, exchange) ==
  [name |-> name, invoke |-> Throws(<<"a">>), params |-> [k \in {"a"} |-> Num(1)]] @@ exchange

WellFormedEntries ==
  {UserScenario(n, x) : n \in UserNames, x \in {Shorthand, StepList}}
    \cup {UserScenario(Str(<<"u2">>), Shorthand)
            @@ [error |-> Returns(<<Entry("a", Num(1))>>),
                context |-> [k \in {"secrets"} |-> Map(0, <<>>)]],
          Delete(UserScenario(Str(<<"u1">>), Shorthand), {"fixture"}),
          UserScenario(Str(<<"u1">>), [steps |-> <<>>]),
          UserScenario(Str(<<"u2">>), StepList) @@ Shorthand}

\* entries lacking one or more required fields (an empty name counts as none)
DefectiveEntries ==
  LET full == UserScenario(Str(<<"u1">>), Shorthand)
  IN  {Delete(full, missing) :
         missing \in {{"name"}, {"invoke"}, {"request", "fixture"},
                      {"request", "fixture", "invoke"}, {"name", "invoke"},
                      {"name", "request", "fixture"}}}
        \cup {[full EXCEPT !.name = Str(<<>>)]}

ScenarioEntries == WellFormedEntries \cup DefectiveEntries

RECURSIVE ListsUpTo(_, _)
ListsUpTo(S, n) ==
  IF n = 0 THEN {<<>>}
  ELSE LET shorter == ListsUpTo(S, n - 1)
       IN  shorter \cup {Append(l, x) : l \in {y \in shorter : Len(y) = n - 1}, x \in S}

\* what yaml.load can return for a scenario file that is a mapping
Documents ==
  LET actions == {[params |-> [k \in {"a", "b"} |-> Num(2)]]}
      lists == {[isArray |-> TRUE, items |-> l] : l \in ListsUpTo(ScenarioEntries, MaxScenarios)}
                 \cup {[isArray |-> FALSE, items |-> <<>>]}
      withAction == {[action |-> Map(0, a)] : a \in actions} \cup {[action |-> Null]}
  IN  {[scenarios |-> l] : l \in lists}
        \cup {d @@ [scenarios |-> l] : d \in withAction, l \in lists}
        \cup withAction

InitParser ==
  /\ NoRun /\ CliIdle
  /\ pc = "parse"
  /\ yamlDoc \in Documents
  /\ includeCommon \in BOOLEAN
  /\ parseResult = NoResult
  /\ rawParts = <<>>
  /\ fixtureText = <<>>
  /\ fixtureResult = NoResult
  /\ reparseResult = NoResult

\* parseScenariosString(yamlString, {includeCommon}) after yaml.load
ParseScenarios ==
  /\ pc = "parse"
  /\ parseResult' = ParseScenariosString(yamlDoc, includeCommon)
  /\ pc' = "parsed"
  /\ UNCHANGED <<runVars, cliVars, yamlDoc, includeCommon, rawParts, fixtureText, fixtureResult, reparseResult>>

NextParser == ParseScenarios

SpecParser == InitParser /\ [][NextParser]_vars

Parsed == pc = "parsed"
ParsedOk == Parsed /\ parseResult.status = "ok"
ParseThrew == Parsed /\ parseResult.status = "threw"
UserEntries == yamlDoc.scenarios.items


----------------------------------------------------------------------------
(* Properties of the scenario parser *)

ParsedScenarios == parseResult.value.scenarios
IsSynthesized(s) == Has(s, "_common")

\* the document has a list of scenario entries to look at
HasEntries ==
  Has(yamlDoc, "action") /\ yamlDoc.action # Null /\ Has(yamlDoc, "scenarios")
    /\ yamlDoc.scenarios.isArray /\ yamlDoc.scenarios.items # <<>>

\* an entry with an empty name has no name
LacksName(entry) == ~Has(entry, "name") \/ entry.name = Str(<<>>)
LacksExchange(entry) == ~Has(entry, "steps") /\ ~Has(entry, "request")

\* for each required field the document lacks, the words that name it
MissingFields ==
  (IF ~Has(yamlDoc, "action") \/ yamlDoc.action = Null THEN {{"action"}} ELSE {})
    \cup (IF ~Has(yamlDoc, "scenarios") THEN {{"scenarios"}}
          ELSE IF ~yamlDoc.scenarios.isArray \/ yamlDoc.scenarios.items = <<>>
          THEN {{"scenarios"}}
          ELSE UNION {(IF LacksName(e) THEN {{"name"}} ELSE {})
                        \cup (IF LacksExchange(e) THEN {{"request", "steps"}} ELSE {})
                        \cup (IF ~Has(e, "invoke") THEN {{"invoke"}} ELSE {}) :
                      e \in Range(yamlDoc.scenarios.items)})

\* the field names the message of the parser's error quotes
QuotedFields == Range(parseResult.failure.expected)

\* C11: parsing a document that lacks `action`, lacks a non-empty
\* `scenarios` list, or holds an entry without `name`, without both `steps`
\* and `request`, or without `invoke`, throws an error whose message quotes
\* the name of a field that is missing, and yields no result.
C11_MissingFieldNamed ==
  (Parsed /\ MissingFields # {}) =>
    /\ parseResult.status = "threw"
    /\ parseResult.value = Undefined
    /\ parseResult.failure.kind = "missing-field"
    /\ \E words \in MissingFields : words \subseteq QuotedFields

C11_Witness ==
  /\ ParseThrew /\ HasEntries
  /\ \E e \in Range(UserEntries) : LacksExchange(e) /\ Has(e, "name") /\ Has(e, "invoke")
  /\ \A e \in Range(UserEntries) : ~LacksName(e) /\ Has(e, "invoke")
  /\ QuotedFields = {"request", "steps"}

\* whether an entry fails one of the three checks made on it
FailsCheck(entry, check) ==
  CASE check = "name" -> LacksName(entry)
    [] check = "exchange" -> LacksExchange(entry)
    [] OTHER -> ~Has(entry, "invoke")

Quoted(check) ==
  CASE check = "exchange" -> <<"request", "steps">>
    [] OTHER -> <<check>>

\* the first check that fails when `action` is checked first, then the
\* `scenarios` list, then every entry in turn with the checks of `order`
FirstFailure(order) ==
  IF ~Has(yamlDoc, "action") \/ yamlDoc.action = Null THEN "action"
  ELSE IF ~Has(yamlDoc, "scenarios") THEN "scenarios"
  ELSE IF ~yamlDoc.scenarios.isArray \/ yamlDoc.scenarios.items = <<>> THEN "scenarios"
  ELSE LET failing == {i \in 1..Len(UserEntries) :
                         \E k \in 1..Len(order) : FailsCheck(UserEntries[i], order[k])}
       IN  IF failing = {} THEN "none"
           ELSE LET e == UserEntries[Least(failing)]
                IN  order[Least({k \in 1..Len(order) : FailsCheck(e, order[k])})]

FirstFailureDecides(order) ==
  Parsed =>
    IF FirstFailure(order) = "none"
    THEN parseResult.failure.kind # "missing-field"
    ELSE /\ parseResult.status = "threw"
         /\ parseResult.failure.kind = "missing-field"
         /\ parseResult.failure.expected = Quoted(FirstFailure(order))

\* C12 as stated: the checks run in the order action, scenarios, name,
\* steps-or-request, invoke, and the first failing one decides the error; an
\* entry with a name but without steps, request and invoke fails with the
\* message about request/steps.
C12_StatedOrder == FirstFailureDecides(<<"name", "exchange", "invoke">>)

\* C12 amended: the checks run in the order action, scenarios, and then for
\* each entry in turn name, invoke, steps-or-request; the first failing one
\* decides the error, so an entry with a name but without steps, request and
\* invoke fails with the message about invoke.
C12_CodeOrder == FirstFailureDecides(<<"name", "invoke", "exchange">>)

C12_Witness ==
  /\ ParseThrew /\ HasEntries
  /\ LET e == UserEntries[1]
     IN  ~LacksName(e) /\ LacksExchange(e) /\ ~Has(e, "invoke")
  /\ parseResult.failure.expected = <<"invoke">>

\* C13: every scenario of a successful parse has at least one step.
C13_EveryScenarioHasStep ==
  ParsedOk => \A i \in 1..Len(ParsedScenarios) : Len(ParsedScenarios[i].steps) >= 1

\* a template whose name a user-defined scenario has is not synthesized
TemplatesSuppressed ==
  includeCommon =>
    \A i \in 1..Len(ParsedScenarios) :
      IsSynthesized(ParsedScenarios[i]) =>
        \A e \in Range(UserEntries) : e.name # ParsedScenarios[i].name

\* C14 as stated: no two scenarios of a successful parse have the same name,
\* and a template whose name a user-defined scenario has is not synthesized.
C14_NamesUnique ==
  ParsedOk =>
    /\ \A i, j \in 1..Len(ParsedScenarios) :
         i # j => ParsedScenarios[i].name # ParsedScenarios[j].name
    /\ TemplatesSuppressed

\* the templates no user-defined scenario is named after, in declaration order
UnusedTemplates ==
  SelectSeq(COMMON_SCENARIOS, LAMBDA c : \A e \in Range(UserEntries) : e.name # c.name)

UsedTemplateNames ==
  {c.name : c \in Range(COMMON_SCENARIOS)} \cap {e.name : e \in Range(UserEntries)}

\* C15: the result lists the user-defined scenarios in their order, none
\* tagged _common; with includeCommon they are followed by one scenario
\* tagged _common: true per template whose name no user-defined scenario has,
\* in declaration order, so the length is the user count plus 8 minus the
\* number of template names in use; without includeCommon nothing follows.
C15_OrderAndLength ==
  ParsedOk =>
    LET n == Len(UserEntries)
    IN  /\ Len(ParsedScenarios) >= n
        /\ \A i \in 1..n :
             /\ ParsedScenarios[i].name = UserEntries[i].name
             /\ ParsedScenarios[i].invoke = UserEntries[i].invoke
             /\ ~IsSynthesized(ParsedScenarios[i])
        /\ ~includeCommon => Len(ParsedScenarios) = n
        /\ includeCommon =>
             /\ Len(ParsedScenarios) = n + 8 - Cardinality(UsedTemplateNames)
             /\ Len(ParsedScenarios) = n + Len(UnusedTemplates)
             /\ \A k \in 1..Len(UnusedTemplates) :
                  /\ ParsedScenarios[n + k].name = UnusedTemplates[k].name
                  /\ IsSynthesized(ParsedScenarios[n + k])
                  /\ ParsedScenarios[n + k]._common = TRUE

C15_Witness ==
  /\ ParsedOk /\ includeCommon
  /\ Len(UserEntries) = 2
  /\ UserEntries[1].name = COMMON_SCENARIOS[8].name
  /\ UserEntries[2].name = Str(<<"u1">>)
  /\ Len(ParsedScenarios) = 9

\* the request of the first step of the first user-defined scenario
FirstRequest ==
  IF Has(UserEntries[1], "steps") THEN UserEntries[1].steps[1].request
  ELSE UserEntries[1].request

TemplateIndex(name) == CHOOSE k \in 1..Len(COMMON_SCENARIOS) : COMMON_SCENARIOS[k].name = name

\* C16: a synthesized scenario has exactly one step, whose request is the
\* method and URL (and nothing else) of the first step of the first
\* user-defined scenario; its invoke.throws is the empty string and it has no
\* error expectation; the first seven templates carry fixture data with
\* status 401, 403, 429, 500, 502, 503, 504, the eighth carries
\* networkError: true and no fixture data.
C16_SynthesizedShape ==
  ParsedOk =>
    \A i \in 1..Len(ParsedScenarios) :
      IsSynthesized(ParsedScenarios[i]) =>
        LET s == ParsedScenarios[i]
            k == TemplateIndex(s.name)
        IN  /\ Len(s.steps) = 1
            /\ s.steps[1].request = [method |-> FirstRequest.method, url |-> FirstRequest.url]
            /\ s.invoke = Throws(<<>>)
            /\ ~Has(s, "error")
            /\ k <= 7 =>
                 /\ Has(s.steps[1], "fixtureData") /\ ~Has(s.steps[1], "networkError")
                 /\ s.steps[1].fixtureData.statusCode = <<401, 403, 429, 500, 502, 503, 504>>[k]
            /\ k = 8 =>
                 /\ ~Has(s.steps[1], "fixtureData")
                 /\ Has(s.steps[1], "networkError") /\ s.steps[1].networkError = TRUE

C16_Witness ==
  /\ ParsedOk /\ includeCommon
  /\ Len(UserEntries) = 2
  /\ UserEntries[1] = UserScenario(Str(<<"u1">>), Shorthand)
  /\ UserEntries[2] = UserScenario(Str(<<"u2">>), StepList)
  /\ Len(ParsedScenarios) = 10
  /\ ParsedScenarios[10].steps[1].request = [method |-> "POST", url |-> "https://x/1"]

\* a scenario written in shorthand has one step that holds its request and
\* fixture, has no top-level `request` or `fixture`, and keeps all its other
\* fields unchanged
ShorthandConverted ==
  \A i \in 1..Len(UserEntries) :
    LET e == UserEntries[i]
        s == ParsedScenarios[i]
    IN  ~Has(e, "steps") =>
          /\ Len(s.steps) = 1
          /\ s.steps[1].request = e.request
          /\ s.steps[1].fixture = (IF Has(e, "fixture") THEN e.fixture ELSE Undefined)
          /\ DOMAIN s = (DOMAIN e \ {"request", "fixture"}) \cup {"steps"}
          /\ \A k \in DOMAIN e \ {"request", "fixture"} : s[k] = e[k]

\* C17 as stated: every scenario of a successful parse has `steps` and no
\* top-level `request` or `fixture`; a scenario written in shorthand has one
\* step that holds its request and fixture, and keeps all its other fields.
C17_UniformShape ==
  ParsedOk =>
    /\ \A i \in 1..Len(ParsedScenarios) :
         Has(ParsedScenarios[i], "steps") /\ ~Has(ParsedScenarios[i], "request")
           /\ ~Has(ParsedScenarios[i], "fixture")
    /\ ShorthandConverted

\* C17 amended: every scenario of a successful parse has `steps`; a scenario
\* written without `steps` is converted as above and loses its top-level
\* `request` and `fixture`; a scenario written with `steps` is returned as
\* written, with any top-level `request` or `fixture` it also has; a
\* synthesized scenario has neither key.
C17_ShorthandNormalised ==
  ParsedOk =>
    /\ \A i \in 1..Len(ParsedScenarios) :
         /\ Has(ParsedScenarios[i], "steps")
         /\ IsSynthesized(ParsedScenarios[i]) =>
              ~Has(ParsedScenarios[i], "request") /\ ~Has(ParsedScenarios[i], "fixture")
    /\ ShorthandConverted
    /\ \A i \in 1..Len(UserEntries) :
         Has(UserEntries[i], "steps") => ParsedScenarios[i] = UserEntries[i]

C17_Witness ==
  /\ ParsedOk
  /\ \E i \in 1..Len(UserEntries) :
       /\ ~Has(UserEntries[i], "steps") /\ Has(UserEntries[i], "error")
       /\ ParsedScenarios[i].steps = <<Shorthand>>
       /\ ParsedScenarios[i].error = UserEntries[i].error
       /\ ~Has(ParsedScenarios[i], "request")

----------------------------------------------------------------------------
(* mergeDefaults at the start of a test *)

MergeKeys == {"a", "b", "c"}

\* the maps over some of the keys with values drawn from `values`
MapsOver(keys, values) == UNION {[K -> values] : K \in SUBSET keys}

ActionParams   == MapsOver(MergeKeys, {Num(1), Num(2), Map(1, [k \in {"x"} |-> Num(1)])})
ScenarioParams == MapsOver(MergeKeys, {Num(3), Num(4), Map(2, [k \in {"y"} |-> Num(2)])})

ActionContexts ==
  {<<>>,
   [k \in {"secrets"} |-> Map(0, [n \in {"T", "U"} |-> Str(<<"a">>)])],
   [k \in {"secrets", "environment", "tenant"} |->
      CASE k = "secrets" -> Map(0, [n \in {"T"} |-> Str(<<"a">>)])
        [] k = "environment" -> Map(0, [n \in {"E", "F"} |-> Str(<<"a">>)])
        [] OTHER -> Str(<<"A">>)]}

ScenarioContexts ==
  {<<>>,
   [k \in {"secrets"} |-> Map(0, [n \in {"U", "V"} |-> Str(<<"b">>)])],
   [k \in {"environment", "tenant"} |->
      IF k = "environment" THEN Map(0, [n \in {"F"} |-> Map(3, [m \in {"z"} |-> Num(1)])])
      ELSE Str(<<"b">>)]}

InitMerge ==
  /\ scriptOption = [kind |-> "module", module |-> NoScript]
  /\ imports = 0
  /\ script = NoScript
  /\ action \in {[params |-> p, context |-> c] : p \in ActionParams, c \in ActionContexts}
  /\ scenarios \in {<<[Scenario("s", <<StepWithData("GET", "https://x/1")>>, Returns(<<>>), FALSE, NoTag)
                         EXCEPT !.params = p, !.context = c]>> :
                      p \in ScenarioParams, c \in ScenarioContexts}
  /\ cur = 1
  /\ pc = "test"
  /\ params = <<>>
  /\ context = <<>>
  /\ netConnect = TRUE
  /\ pending = {}
  /\ resolvedSteps = <<>>
  /\ scopes = <<>>
  /\ consoleMuted = FALSE
  /\ invokeCalls = <<>>
  /\ errorCalls = <<>>
  /\ invokeOutcome = NoOutcome
  /\ invokeAssert = NoResult
  /\ caughtError = Undefined
  /\ errorOutcome = NoOutcome
  /\ errorAssert = NoResult
  /\ engineResult = NoResult
  /\ verified = FALSE
  /\ outcome = <<"none">>
  /\ failure = NoFailure
  /\ cleanups = <<0>>
  /\ ParsersIdle /\ CliIdle

NextMerge == TestBegin

SpecMerge == InitMerge /\ [][NextMerge]_vars

\* the map `name` (params, secrets or environment) as written at one level
\* (the action or a scenario); a map that is not written has no keys
WrittenMap(level, name) ==
  IF name = "params" THEN level.params
  ELSE IF name \in DOMAIN level.context THEN level.context[name].props
  ELSE <<>>

\* the map `name` a test runs with
EffectiveMap(name) == IF name = "params" THEN params ELSE context[name].props

\* C18: for params, context.secrets and context.environment the map a test
\* runs with has the keys of the action-level map and of the scenario-level
\* map and no others; a key the scenario specifies has the scenario's
\* value, whole, and any other key has the action's value.
C18_MergeDefaults ==
  pc = "setup" =>
    \A name \in {"params", "secrets", "environment"} :
      LET a == WrittenMap(action, name)
          s == WrittenMap(scenarios[cur], name)
          e == EffectiveMap(name)
      IN  /\ DOMAIN e = DOMAIN a \cup DOMAIN s
          /\ \A k \in DOMAIN e : e[k] = IF k \in DOMAIN s THEN s[k] ELSE a[k]

C18_Witness ==
  /\ pc = "setup"
  /\ action.params = [k \in {"a", "b"} |-> IF k = "a" THEN Num(1) ELSE Num(2)]
  /\ scenarios[cur].params = [k \in {"b", "c"} |-> IF k = "b" THEN Num(3) ELSE Num(4)]
  /\ params = [k \in {"a", "b", "c"} |-> CASE k = "a" -> Num(1) [] k = "b" -> Num(3) [] OTHER -> Num(4)]
  /\ context.secrets.props = [n \in {"T", "U", "V"} |-> IF n = "T" THEN Str(<<"a">>) ELSE Str(<<"b">>)]

----------------------------------------------------------------------------
(* parseFixtureString called on its own *)

MaxHeaderLines == 2

HttpSlash == <<"H", "T", "T", "P", "/">>

\* first lines: well-formed status lines and near misses
StatusLines ==
  {HttpSlash \o <<"1", ".", "1", " ">> \o code \o reason :
     code \in {<<"2", "0", "0">>, <<"4", "0", "4">>, <<"2", "0">>, <<"2", "0", "0", "0">>},
     reason \in {<<>>, <<" ", "O", "K">>, <<"O", "K">>}}
    \cup {HttpSlash \o version \o <<" ">> \o code \o <<" ", "O", "K">> :
            version \in {<<"2">>, <<>>, <<".">>},
            code \in {<<"5", "0", "3">>, <<"5", "0", "3", "1">>}}
    \cup {HttpSlash \o <<"1", ".", "1">> \o sep \o <<"2", "0", "0">> :
            sep \in {<<" ", " ">>, <<"\t">>, <<>>}}
    \cup {<<>>, <<"n", "o">>, HttpSlash \o <<"2", " ", "0", "9", "9">>, <<" ">> \o HttpSlash \o <<"2", " ", "2", "0", "0">>,
          <<"H", "T", "P", "/", "1", ".", "1", " ", "2", "0", "0">>,
          <<"X", ":", " ", "y">>}

\* lines of a header block
HeaderLines ==
  {<<"X", ":", " ", "y">>, <<"X", ":", "z">>, <<" ", "X", " ", ":", " ", "w", "\t">>,
   <<"A", ":", " ", "b", ":", "c">>, <<"n", "o">>, <<"B", ":">>}

LF == <<"\n">>
CRLF == <<"\r", "\n">>

\* what follows the header block: nothing, a line end, a blank line, a body
\* (of one line, of lines around a blank line, of a line that ends in a
\* carriage return of its own)
Tails(eol) ==
  {<<>>, eol, eol \o eol, eol \o eol \o <<"b">>,
   eol \o eol \o <<"b">> \o eol \o eol \o <<"c">> \o eol,
   eol \o eol \o <<"b", "\r">> \o eol}

RECURSIVE Join(_, _)
Join(lines, eol) ==
  IF Len(lines) = 1 THEN lines[1]
  ELSE lines[1] \o eol \o Join(Tail(lines), eol)

RawParts ==
  {[statusLine |-> s, headerLines |-> h, eol |-> e, tail |-> t] :
     s \in StatusLines, h \in ListsUpTo(HeaderLines, MaxHeaderLines),
     e \in {LF, CRLF}, t \in Tails(LF) \cup Tails(CRLF)}

\* the text of a fixture file put together from its lines
Compose(parts) == Join(<<parts.statusLine>> \o parts.headerLines, parts.eol) \o parts.tail

InitFixture ==
  /\ NoRun /\ CliIdle
  /\ pc = "parseFixture"
  /\ yamlDoc = <<>>
  /\ includeCommon = FALSE
  /\ parseResult = NoResult
  /\ rawParts \in {p \in RawParts : p.tail \in Tails(p.eol)}
  /\ fixtureText = Compose(rawParts)
  /\ fixtureResult = NoResult
  /\ reparseResult = NoResult

\* parseFixtureString(raw)
ParseFixtureText ==
  /\ pc = "parseFixture"
  /\ fixtureResult' = ParseFixtureString(fixtureText)
  /\ pc' = "parsedFixture"
  /\ UNCHANGED <<runVars, cliVars, yamlDoc, includeCommon, parseResult, rawParts, fixtureText,
                 reparseResult>>

DigitChar(d) == CHOOSE c \in Digits : DigitValue(c) = d

\* the status line of a record: the protocol and the code in three digits
StatusLineOf(statusCode) ==
  HttpSlash \o <<"1", ".", "1", " ", DigitChar(statusCode \div 100),
                 DigitChar((statusCode \div 10) % 10), DigitChar(statusCode % 10)>>

\* one `Name: value` line, with its line end, per header
RECURSIVE HeaderBlockOf(_)
HeaderBlockOf(headers) ==
  IF DOMAIN headers = {} THEN <<>>
  ELSE LET name == CHOOSE n \in DOMAIN headers : TRUE
       IN  name \o <<":", " ">> \o headers[name] \o CRLF
             \o HeaderBlockOf([n \in DOMAIN headers \ {name} |-> headers[n]])

\* the text of a record: status line, header lines, blank line, body
Serialize(record) ==
  StatusLineOf(record.statusCode) \o CRLF \o HeaderBlockOf(record.headers)
    \o CRLF \o record.body

\* the parsed record is written out and parsed again
ReparseSerialized ==
  /\ pc = "parsedFixture"
  /\ fixtureResult.status = "ok"
  /\ reparseResult' = ParseFixtureString(Serialize(fixtureResult.value))
  /\ pc' = "reparsed"
  /\ UNCHANGED <<runVars, cliVars, yamlDoc, includeCommon, parseResult, rawParts, fixtureText,
                 fixtureResult>>

NextFixture == ParseFixtureText \/ ReparseSerialized

SpecFixture == InitFixture /\ [][NextFixture]_vars

----------------------------------------------------------------------------
(* Properties of the fixture parser *)

FixtureParsed == pc \in {"parsedFixture", "reparsed"}
FirstLine == rawParts.statusLine

\* a status line: HTTP/ and a version of digits and dots, a space, a code of
\* exactly three digits, and then possibly a reason phrase; `k` is where the
\* version ends
StatusLineAt(line, k) ==
  /\ k >= 6 /\ Len(line) >= k + 4
  /\ SubSeq(line, 1, 5) = HttpSlash
  /\ \A j \in 6..k : line[j] \in Digits \cup {"."}
  /\ line[k + 1] = " "
  /\ \A j \in (k + 2)..(k + 4) : line[j] \in Digits
  /\ Len(line) > k + 4 => line[k + 5] \notin Digits

IsStatusLine(line) == \E k \in 1..Len(line) : StatusLineAt(line, k)

\* the code of a status line, read as a decimal number
CodeOf(line) ==
  LET k == CHOOSE k \in 1..Len(line) : StatusLineAt(line, k)
  IN  100 * DigitValue(line[k + 2]) + 10 * DigitValue(line[k + 3]) + DigitValue(line[k + 4])

\* C19: parsing a fixture throws 'Invalid HTTP fixture' exactly when its
\* first line is not a status line (protocol token, whitespace, a code of
\* three digits, optional reason phrase); when it succeeds statusCode is
\* that code as an integer.
C19_FailsIffNoStatusLine ==
  FixtureParsed =>
    /\ (fixtureResult.status = "threw") <=> ~IsStatusLine(FirstLine)
    /\ fixtureResult.status = "threw" => fixtureResult.failure.kind = "invalid-fixture"
    /\ fixtureResult.status = "ok" => fixtureResult.value.statusCode = CodeOf(FirstLine)

\* the lines of the header block that hold a colon
ColonLines == SelectSeq(rawParts.headerLines, LAMBDA l : ":" \in Range(l))
FirstColon(line) == Least({i \in 1..Len(line) : line[i] = ":"})
NameOf(line)  == Trim(SubSeq(line, 1, FirstColon(line) - 1))
ValueOf(line) == Trim(SubSeq(line, FirstColon(line) + 1, Len(line)))

\* C20: the headers of a parsed fixture map, for each line of the header
\* block, the trimmed text before its first colon to the trimmed text after
\* it; of the lines with the same name the last one gives the value; with no
\* header lines the map is empty.
C20_Headers ==
  (FixtureParsed /\ fixtureResult.status = "ok") =>
    LET headers == fixtureResult.value.headers
    IN  /\ DOMAIN headers = {NameOf(ColonLines[i]) : i \in 1..Len(ColonLines)}
        /\ \A i \in 1..Len(ColonLines) :
             (\A j \in (i + 1)..Len(ColonLines) : NameOf(ColonLines[j]) # NameOf(ColonLines[i]))
               => headers[NameOf(ColonLines[i])] = ValueOf(ColonLines[i])
        /\ rawParts.headerLines = <<>> => headers = <<>>

C20_Witness ==
  /\ FixtureParsed /\ fixtureResult.status = "ok"
  /\ rawParts.headerLines = <<<<"X", ":", " ", "y">>, <<" ", "X", " ", ":", " ", "w", "\t">>>>
  /\ rawParts.eol = CRLF
  /\ fixtureResult.value.headers = [n \in {<<"X">>} |-> <<"w">>]

\* the text written after the first blank line, if there is one
HasBlankLine ==
  Len(rawParts.tail) >= 2 * Len(rawParts.eol)
    /\ SubSeq(rawParts.tail, 1, 2 * Len(rawParts.eol)) = rawParts.eol \o rawParts.eol
WrittenBody ==
  IF HasBlankLine THEN SubSeq(rawParts.tail, 2 * Len(rawParts.eol) + 1, Len(rawParts.tail))
  ELSE <<>>

\* a text with every CRLF turned into LF: the carriage returns that stand
\* directly before a line feed are left out
WithLF(text) ==
  LET kept == {i \in 1..Len(text) : ~(text[i] = "\r" /\ i < Len(text) /\ text[i + 1] = "\n")}
  IN  [j \in 1..Cardinality(kept) |->
         text[CHOOSE i \in kept : Cardinality({k \in kept : k <= i}) = j]]

\* C21 as stated: the body is the text after the first blank line, verbatim
\* with the line ends it was written with, and empty without a blank line.
C21_BodyVerbatim ==
  (FixtureParsed /\ fixtureResult.status = "ok") => fixtureResult.value.body = WrittenBody

\* C21 amended: the body is the text after the first blank line with every
\* CRLF line end turned into LF and otherwise unchanged (internal blank lines
\* included), and empty without a blank line.
C21_BodyWithLF ==
  (FixtureParsed /\ fixtureResult.status = "ok") =>
    fixtureResult.value.body = WithLF(WrittenBody)

C21_Witness ==
  /\ FixtureParsed /\ fixtureResult.status = "ok"
  /\ rawParts.eol = CRLF
  /\ WrittenBody = <<"b", "\r", "\n", "\r", "\n", "c", "\r", "\n">>
  /\ fixtureResult.value.body = <<"b", "\n", "\n", "c", "\n">>

\* C22 as stated: when a raw text parses, the text made of the record's
\* status line, one `Name: value` line per header, a blank line and the body
\* parses to a record with the same statusCode, headers and body.
C22_RoundTrip ==
  pc = "reparsed" =>
    /\ reparseResult.status = "ok"
    /\ reparseResult.value.statusCode = fixtureResult.value.statusCode
    /\ reparseResult.value.headers = fixtureResult.value.headers
    /\ reparseResult.value.body = fixtureResult.value.body

\* C22 amended: the second parse succeeds with the same statusCode and the
\* same headers, and its body is the first body with every CRLF it still
\* holds turned into LF; the two records are equal when the first body holds
\* no CRLF.
C22_RoundTripUpToLineEnds ==
  pc = "reparsed" =>
    /\ reparseResult.status = "ok"
    /\ reparseResult.value.statusCode = fixtureResult.value.statusCode
    /\ reparseResult.value.headers = fixtureResult.value.headers
    /\ reparseResult.value.body = WithLF(fixtureResult.value.body)
    /\ ~Includes(fixtureResult.value.body, CRLF) => reparseResult.value = fixtureResult.value

C22_Witness ==
  /\ pc = "reparsed" /\ reparseResult.status = "ok"
  /\ Len(rawParts.headerLines) = 2
  /\ Cardinality(DOMAIN fixtureResult.value.headers) = 2
  /\ fixtureResult.value.body = <<"b", "\n", "\n", "c", "\n">>
  /\ reparseResult.value = fixtureResult.value
  /\ Serialize(fixtureResult.value) # fixtureText

----------------------------------------------------------------------------
(* setupNock on its own step lists, and one test around it *)

MaxSteps == 2

\* a step that carries both fixture data and the network-error flag
StepWithBoth(m, u) == [StepWithData(m, u) EXCEPT !.networkError = TRUE]

\* steps as resolveStepFixtures leaves them, and steps it would refuse
NockSteps ==
  {StepWithData("GET", "https://x/1"), StepWithData("post", "https://x/2"),
   StepNetworkError("GET", "https://x/3"), StepWithBoth("POST", "https://x/4"),
   StepWithFile("GET", "https://x/5", "200.http"), StepWithFile("GET", "https://x/6", ""),
   StepWithData("trace", "https://x/7"), StepWithFile("trace", "https://x/8", "")}

\* a script whose invoke performs the calls in `hit` and catches nothing: it
\* throws the transport error of a call that fails, and returns otherwise
Forwarding(hit) ==
  IF \E i \in hit : Transport(i).kind = "error"
  THEN Rejected(Err(1, <<"Network error: connection refused">>))
  ELSE Resolved(Map(0, [k \in {"a"} |-> Num(Cardinality(hit))]))

ForwardingScript ==
  [loaded |-> TRUE, hasError |-> FALSE, invokeOutcomes |-> {}, errorOutcomes |-> {}]

\* a test that is about to start, or setupNock about to be called on steps
\* that did not go through resolveStepFixtures
InitNock ==
  /\ scriptOption = [kind |-> "module", module |-> ForwardingScript]
  /\ imports = 0
  /\ script = ForwardingScript
  /\ action = [params |-> <<>>, context |-> <<>>]
  /\ scenarios \in {<<Scenario("s", st, i, FALSE, NoTag)>> :
                      st \in ListsUpTo(NockSteps, MaxSteps) \ {<<>>},
                      i \in {Throws(<<>>), Returns(<<>>)}}
  /\ cur = 1
  /\ pc \in {"test", "setup"}
  /\ params = <<>>
  /\ context = <<>>
  /\ netConnect = TRUE
  /\ pending = {}
  /\ resolvedSteps = IF pc = "setup" THEN scenarios[1].steps ELSE <<>>
  /\ scopes = <<>>
  /\ consoleMuted = FALSE
  /\ invokeCalls = <<>>
  /\ errorCalls = <<>>
  /\ invokeOutcome = NoOutcome
  /\ invokeAssert = NoResult
  /\ caughtError = Undefined
  /\ errorOutcome = NoOutcome
  /\ errorAssert = NoResult
  /\ engineResult = NoResult
  /\ verified = FALSE
  /\ outcome = <<"none">>
  /\ failure = NoFailure
  /\ cleanups = <<0>>
  /\ ParsersIdle /\ CliIdle

NextNock ==
  \/ TestBegin
  \/ TestSetup
  \/ EngineStart
  \/ \E hit \in SUBSET pending : InvokeSettles(Forwarding(hit), hit)
  \/ TestAfterEngine
  \/ AfterEach

SpecNock == InitNock /\ [][NextNock]_vars

----------------------------------------------------------------------------
(* Properties of the interception setup *)

SupportedVerbs == {"GET", "POST", "PUT", "PATCH", "DELETE", "HEAD", "OPTIONS"}
BadVerb(step) == ToUpperCase(step.request.method) \notin SupportedVerbs
NoReply(step) == ~step.hasFixtureData /\ ~step.networkError

\* setupNock has been called in this test and cleanupNock has not yet
SetupCalled == ~netConnect

\* C23: setupNock throws 'Unsupported HTTP method' for a step whose verb is
\* not one of the seven, throws an error naming method and URL for a step
\* with neither fixture data nor the network-error flag, and otherwise
\* returns one handle per step in step order; a step without fixture path,
\* fixture data and network-error flag never lets invoke be called.
C23_SetupNock ==
  /\ SetupCalled =>
       LET bad == {i \in 1..Len(resolvedSteps) :
                     BadVerb(resolvedSteps[i]) \/ NoReply(resolvedSteps[i])}
       IN  IF bad = {}
           THEN /\ pc # "afterEach" \/ failure.kind \notin {"unsupported-method", "no-fixture-data"}
                /\ Len(scopes) = Len(resolvedSteps)
                /\ \A i \in 1..Len(scopes) :
                     /\ scopes[i].step = i
                     /\ scopes[i].url = resolvedSteps[i].request.url
                     /\ scopes[i].method = ToUpperCase(resolvedSteps[i].request.method)
           ELSE LET step == resolvedSteps[Least(bad)]
                IN  /\ pc = "afterEach" /\ outcome[cur] = "fail" /\ scopes = <<>>
                    /\ failure.label = step.request.method
                    /\ IF BadVerb(step) THEN failure.kind = "unsupported-method"
                       ELSE failure.kind = "no-fixture-data" /\ failure.key = step.request.url
  /\ (\E i \in 1..Len(scenarios[cur].steps) :
        NoReply(scenarios[cur].steps[i]) /\ scenarios[cur].steps[i].fixture = "")
       => invokeCalls = <<>>

C23_Witness ==
  /\ SetupCalled /\ pc = "invoking"
  /\ Len(resolvedSteps) = 2 /\ Len(scopes) = 2
  /\ resolvedSteps[1].request.method = "post"
  /\ scopes[1].method = "POST" /\ scopes[2].url = "https://x/3"

\* the interceptors the forwarded calls of invoke consumed
Consumed == Range(scopes) \ pending

\* C24: a call that matches a step with networkError: true fails at the
\* transport level and gets no response, with or without fixture data on the
\* step; invoke of a script that makes that call and catches nothing is seen
\* to throw, and an expectation `throws: ''` is met.
C24_NetworkError ==
  /\ \A i \in 1..Len(scopes) :
       resolvedSteps[i].networkError => Transport(scopes[i]).kind = "error"
  /\ (pc \in {"engineDone", "afterEach"} /\ invokeOutcome # NoOutcome
        /\ \E i \in 1..Len(scopes) : resolvedSteps[i].networkError /\ scopes[i] \in Consumed)
       => /\ invokeOutcome.kind = "rejected"
          /\ ExpectsThrows(scenarios[cur].invoke) =>
               invokeAssert.status = "ok" /\ (pc = "engineDone" => engineResult.status = "ok")

C24_Witness ==
  /\ pc = "engineDone" /\ engineResult.status = "ok"
  /\ scenarios[cur].invoke = Throws(<<>>)
  /\ \E i \in 1..Len(scopes) :
       /\ resolvedSteps[i].networkError /\ resolvedSteps[i].hasFixtureData
       /\ scopes[i] \in Consumed
  /\ invokeOutcome.kind = "rejected"

----------------------------------------------------------------------------
(* The scaffolding CLI (src/cli/init.mjs) *)

\* what a path of the working directory holds
Absent == [kind |-> "absent", content |-> <<>>]
Dir == [kind |-> "dir", content |-> <<>>]
File(content) == [kind |-> "file", content |-> content]

MetadataPath == "metadata.yaml"
TestsDir == "tests"
FixturesDir == "tests/fixtures"
ScenariosPath == "tests/scenarios.yaml"
FixturePath == "tests/fixtures/200-success.http"
Paths == {MetadataPath, TestsDir, FixturesDir, ScenariosPath, FixturePath}

ExistsSync(f, path) == f[path].kind # "absent"

\* readFileSync + yaml.load + `doc.name`: a directory cannot be read, text
\* that is not YAML makes yaml.load throw, and an empty document loads as
\* undefined, whose `name` cannot be read
LoadMetadata(node) ==
  IF node.kind = "dir" THEN Threw([NoFailure EXCEPT !.origin = "node", !.kind = "EISDIR"])
  ELSE IF node.content = <<"{">>
  THEN Threw([NoFailure EXCEPT !.origin = "yaml", !.kind = "YAMLException"])
  ELSE IF node.content = <<>> THEN Threw(TypeError("name"))
  ELSE Ok(Str(<<node.content[2]>>))

\* the two generated texts
GenerateScenariosYaml(name) == <<"scenarios for", name.text[1]>>
GenerateFixture == <<"HTTP/1.1 200 OK">>

\* mkdirSync(fixturesDir, {recursive: true})
MkdirRecursive(f) ==
  IF f[TestsDir].kind = "file"
  THEN Threw([NoFailure EXCEPT !.origin = "node", !.kind = "ENOTDIR"])
  ELSE IF f[FixturesDir].kind = "file"
  THEN Threw([NoFailure EXCEPT !.origin = "node", !.kind = "EEXIST"])
  ELSE Ok([f EXCEPT ![TestsDir] = Dir, ![FixturesDir] = Dir])

WriteAlways(f, path, content) ==
  [fs |-> [f EXCEPT ![path] = File(content)], created |-> <<path>>, skipped |-> <<>>]

\* one of the two `if (existsSync(path)) skipped.push else writeFileSync, created.push`
WriteIfMissing(f, path, content) ==
  IF ExistsSync(f, path)
  THEN [fs |-> f, created |-> <<>>, skipped |-> <<path>>]
  ELSE [fs |-> [f EXCEPT ![path] = File(content)], created |-> <<path>>, skipped |-> <<>>]

Exited(f, code, err, created, skipped) ==
  [status |-> "exited", fs |-> f, exit |-> code, stderr |-> err,
   created |-> created, skipped |-> skipped]

\* the whole script, from process start to exit
RunInit(f) ==
  IF ~ExistsSync(f, MetadataPath)
  THEN Exited(f, 1, <<"Error: metadata.yaml not found in current directory.",
                      "Run this command from the root of an action repository.">>,
              <<>>, <<>>)
  ELSE LET metadata == LoadMetadata(f[MetadataPath])
       IN  IF metadata.status = "threw"
           THEN Exited(f, 1, <<metadata.failure.kind>>, <<>>, <<>>)
           ELSE LET made == MkdirRecursive(f)
                IN  IF made.status = "threw"
                    THEN Exited(f, 1, <<made.failure.kind>>, <<>>, <<>>)
                    ELSE LET one == WriteIfMissing(made.value, ScenariosPath,
                                                   GenerateScenariosYaml(metadata.value))
                             two == WriteIfMissing(one.fs, FixturePath, GenerateFixture)
                         IN  Exited(two.fs, 0, <<>>, one.created \o two.created,
                                    one.skipped \o two.skipped)

\* contents of metadata.yaml: two actions, no YAML, an empty file
MetadataNodes ==
  {Absent, Dir, File(<<"name:", "okta-suspend-user">>), File(<<"name:", "other">>),
   File(<<"{">>), File(<<>>)}
ScenarioNodes == {Absent, Dir, File(<<"existing content">>), File(<<"scenarios for", "other">>)}
FixtureNodes == {Absent, File(<<"existing fixture">>), File(GenerateFixture)}

\* the directories the CLI can be started in: nothing exists inside a path
\* that is not a directory
WorkingDirs ==
  {f \in [Paths -> MetadataNodes \cup ScenarioNodes \cup FixtureNodes] :
     /\ f[MetadataPath] \in MetadataNodes
     /\ f[TestsDir] \in {Absent, Dir, File(<<>>)}
     /\ f[FixturesDir] \in {Absent, Dir, File(<<>>)}
     /\ f[ScenariosPath] \in ScenarioNodes
     /\ f[FixturePath] \in FixtureNodes
     /\ f[TestsDir].kind # "dir" => f[FixturesDir] = Absent /\ f[ScenariosPath] = Absent
     /\ f[FixturesDir].kind # "dir" => f[FixturePath] = Absent}

InitCli ==
  /\ NoRun /\ ParsersIdle
  /\ pc = "cli"
  /\ fs \in WorkingDirs
  /\ fsAtStart = fs
  /\ cli = [status |-> "idle"]

\* `sgnl-test-init` runs in the working directory
InitMjs ==
  /\ pc = "cli"
  /\ cli' = RunInit(fs)
  /\ fs' = cli'.fs
  /\ pc' = "cliDone"
  /\ UNCHANGED <<runVars, parserVars, fsAtStart>>

NextCli == InitMjs

SpecCli == InitCli /\ [][NextCli]_vars

----------------------------------------------------------------------------
(* Properties of the scaffolding CLI *)

TwoFiles == {ScenariosPath, FixturePath}
CliDone == pc = "cliDone"
Reported(list, path) == \E i \in 1..Len(list) : list[i] = path

\* the run got as far as the two files
ReachesFiles ==
  /\ fsAtStart[MetadataPath].kind = "file"
  /\ fsAtStart[MetadataPath].content \notin {<<>>, <<"{">>}
  /\ fsAtStart[TestsDir].kind # "file"
  /\ fsAtStart[FixturesDir].kind # "file"

NeverChanged ==
  \A path \in TwoFiles : ExistsSync(fsAtStart, path) => fs[path] = fsAtStart[path]

AbsentMetadata ==
  ~ExistsSync(fsAtStart, MetadataPath) =>
     /\ cli.exit = 1
     /\ cli.stderr # <<>>
     /\ fs = fsAtStart

\* C25 as stated: a file that exists before the run is unchanged after it and
\* is reported as skipped, whatever happens to the other file; a missing file
\* is created even when the other is skipped; without metadata.yaml the CLI
\* exits with status 1 after writing to stderr and creates nothing.
C25_SkipsExisting ==
  CliDone =>
    /\ NeverChanged
    /\ \A path \in TwoFiles :
         ExistsSync(fsAtStart, path) => Reported(cli.skipped, path)
    /\ \A path \in TwoFiles :
         (~ExistsSync(fsAtStart, path) /\ ExistsSync(fsAtStart, MetadataPath)) =>
            ExistsSync(fs, path) /\ Reported(cli.created, path)
    /\ AbsentMetadata

\* C25, amended: existing files are never changed; in a run that gets as far
\* as the two files (metadata.yaml loads and tests/fixtures can be made) each
\* existing file is reported as skipped and each missing file is created and
\* reported as created, independently; every other run, the one without
\* metadata.yaml among them, exits with status 1, writes to stderr and leaves
\* the directory as it was.
C25_SkipsExistingWhenReached ==
  CliDone =>
    /\ NeverChanged
    /\ ReachesFiles <=> cli.exit = 0
    /\ ReachesFiles =>
         \A path \in TwoFiles :
           IF ExistsSync(fsAtStart, path)
           THEN Reported(cli.skipped, path) /\ ~Reported(cli.created, path)
           ELSE /\ fs[path].kind = "file" /\ fs[path].content # <<>>
                /\ Reported(cli.created, path) /\ ~Reported(cli.skipped, path)
    /\ ~ReachesFiles => cli.exit = 1 /\ cli.stderr # <<>> /\ fs = fsAtStart
    /\ AbsentMetadata

C25_Witness ==
  /\ CliDone /\ cli.exit = 0
  /\ fsAtStart[ScenariosPath] = File(<<"existing content">>)
  /\ fs[ScenariosPath] = File(<<"existing content">>)
  /\ fsAtStart[FixturesDir] = Absent
  /\ fs[FixturePath] = File(GenerateFixture)
  /\ cli.skipped = <<ScenariosPath>> /\ cli.created = <<FixturePath>>

----------------------------------------------------------------------------
(* runScenarios from its call: parse, start the import, register, run *)

\* a step of a parsed scenario as resolveStepFixtures and setupNock read it
ToRunStep(step) ==
  [request |-> Request(step.request.method, step.request.url),
   fixture |-> IF Has(step, "fixture") /\ step.fixture # Undefined
               THEN step.fixture.text[1] ELSE "",
   hasFixtureData |-> Has(step, "fixtureData"),
   fixtureData |-> IF Has(step, "fixtureData") THEN step.fixtureData ELSE NoFixtureData,
   networkError |-> Has(step, "networkError") /\ step.networkError]

\* a parsed scenario as the test body and runScenarioHandlers read it
ToRunScenario(scenario) ==
  [name |-> scenario.name.text[1],
   steps |-> [i \in 1..Len(scenario.steps) |-> ToRunStep(scenario.steps[i])],
   params |-> IF Has(scenario, "params") THEN scenario.params ELSE <<>>,
   context |-> IF Has(scenario, "context") THEN scenario.context ELSE <<>>,
   invoke |-> scenario.invoke,
   hasError |-> Has(scenario, "error"),
   error |-> IF Has(scenario, "error") THEN scenario.error ELSE NoTag]

\* doc.action as mergeDefaults reads it
ToRunAction(act) ==
  [params |-> IF Has(act.props, "params") THEN act.props.params ELSE <<>>,
   context |-> IF Has(act.props, "context") THEN act.props.context ELSE <<>>]

StartImportNever(option, started) == started

\* `if (typeof scriptPathOrModule === 'string') scriptPromise = import(...)`
StartImport(option, started) == IF option.kind = "path" THEN started + 1 ELSE started

\* scenario entries of the files given to runScenarios
EntryOk == UserScenario(Str(<<"u1">>), Shorthand)
EntryReturns == [UserScenario(Str(<<"u2">>), Shorthand) EXCEPT !.invoke = Returns(<<Entry("a", Num(1))>>)]
EntryEmptyInvoke == [UserScenario(Str(<<"u2">>), Shorthand) EXCEPT !.invoke = NoTag]
EntryMissingFile == UserScenario(Str(<<"u2">>), StepList)
EntryBadFixture == [UserScenario(Str(<<"u2">>), Shorthand) EXCEPT !.fixture = Str(<<"bad.http">>)]
EntryUnresolved == Delete(UserScenario(Str(<<"u2">>), Shorthand), {"fixture"})
EntryTrace ==
  [UserScenario(Str(<<"u2">>), Shorthand) EXCEPT !.request = [method |-> "trace", url |-> "https://x/3"]]
EntryWithError == UserScenario(Str(<<"u2">>), Shorthand) @@ [error |-> Returns(<<Entry("a", Num(1))>>)]
EntryNoName == Delete(UserScenario(Str(<<"u2">>), Shorthand), {"name"})

RunDocuments ==
  LET act == Map(0, [params |-> [k \in {"a", "b"} |-> Num(2)]])
      lists == {<<EntryOk>>, <<EntryOk, EntryReturns>>, <<EntryEmptyInvoke, EntryOk>>,
                <<EntryOk, EntryMissingFile>>, <<EntryBadFixture, EntryOk>>,
                <<EntryOk, EntryUnresolved>>, <<EntryTrace, EntryOk>>,
                <<EntryOk, EntryWithError>>, <<EntryOk, EntryNoName>>}
  IN  {[action |-> act, scenarios |-> [isArray |-> TRUE, items |-> l]] : l \in lists}
        \cup {[scenarios |-> [isArray |-> TRUE, items |-> <<EntryOk>>]],
              [action |-> act, scenarios |-> [isArray |-> FALSE, items |-> <<>>]]}

RunScripts ==
  LET m == [loaded |-> TRUE, hasError |-> TRUE,
            invokeOutcomes |-> {Resolved(Map(0, [k \in {"a"} |-> Num(1)])),
                                Rejected(Err(1, <<"a", "b">>))},
            errorOutcomes |-> {Resolved(Map(0, [k \in {"a"} |-> Num(1)]))}]
  IN  {[kind |-> k, module |-> m] : k \in {"path", "module"}}

\* runScenarios is about to be called
InitRun ==
  /\ scriptOption \in RunScripts
  /\ imports = 0
  /\ script = NoScript
  /\ action = [params |-> <<>>, context |-> <<>>]
  /\ scenarios = <<>>
  /\ cur = 1
  /\ pc = "run"
  /\ params = <<>>
  /\ context = <<>>
  /\ netConnect = TRUE
  /\ pending = {}
  /\ resolvedSteps = <<>>
  /\ scopes = <<>>
  /\ consoleMuted = FALSE
  /\ invokeCalls = <<>>
  /\ errorCalls = <<>>
  /\ invokeOutcome = NoOutcome
  /\ invokeAssert = NoResult
  /\ caughtError = Undefined
  /\ errorOutcome = NoOutcome
  /\ errorAssert = NoResult
  /\ engineResult = NoResult
  /\ verified = FALSE
  /\ outcome = <<>>
  /\ failure = NoFailure
  /\ cleanups = <<>>
  /\ yamlDoc \in RunDocuments
  /\ includeCommon \in BOOLEAN
  /\ parseResult = NoResult
  /\ rawParts = <<>>
  /\ fixtureText = <<>>
  /\ fixtureResult = NoResult
  /\ reparseResult = NoResult
  /\ CliIdle

\* the body of runScenarios: parseScenarios, the import of a script given by
\* path, describe and the registration of one test per scenario
RunScenariosCall ==
  /\ pc = "run"
  /\ parseResult' = ParseScenariosString(yamlDoc, includeCommon)
  /\ IF parseResult'.status = "threw"
     THEN /\ pc' = "runThrew"
          /\ failure' = parseResult'.failure
          /\ UNCHANGED <<action, scenarios, imports, outcome, cleanups>>
     ELSE /\ pc' = "beforeAll"
          /\ action' = ToRunAction(parseResult'.value.action)
          /\ scenarios' = [i \in 1..Len(parseResult'.value.scenarios) |->
                             ToRunScenario(parseResult'.value.scenarios[i])]
          /\ imports' = StartImport(scriptOption, imports)
          /\ outcome' = [i \in 1..Len(parseResult'.value.scenarios) |-> "none"]
          /\ cleanups' = [i \in 1..Len(parseResult'.value.scenarios) |-> 0]
          /\ UNCHANGED failure
  /\ UNCHANGED <<scriptOption, script, cur, params, context, netConnect, pending,
                 resolvedSteps, scopes, consoleMuted, invokeCalls, errorCalls,
                 invokeOutcome, invokeAssert, caughtError, errorOutcome, errorAssert,
                 engineResult, verified>>
  /\ UNCHANGED <<yamlDoc, includeCommon, rawParts, fixtureText, fixtureResult,
                 reparseResult, cliVars>>

NextRun ==
  \/ RunScenariosCall
  \/ BeforeAll
  \/ TestBegin
  \/ TestSetup
  \/ EngineStart
  \/ \E o \in script.invokeOutcomes, hit \in SUBSET pending : InvokeSettles(o, hit)
  \/ \E o \in script.errorOutcomes, hit \in SUBSET pending : ErrorSettles(o, hit)
  \/ TestAfterEngine
  \/ AfterEach

SpecRun == InitRun /\ [][NextRun]_vars

----------------------------------------------------------------------------
(* Properties of a run *)

SetupErrorKinds ==
  {"ENOENT", "invalid-fixture", "unsupported-method", "unresolved-step", "no-fixture-data"}

\* the files that exist next to the scenario file, and those without a status line
ReadableFiles == {"200.http", "bad.http"}
MalformedFiles == {"bad.http"}

NeedsFile(step) == ~step.hasFixtureData /\ ~step.networkError

\* the setup error a list of steps leads to: every step is resolved before
\* any interceptor is installed
ExpectedSetupError(steps) ==
  LET unresolved == {i \in 1..Len(steps) : NeedsFile(steps[i])
                       /\ (steps[i].fixture = "" \/ steps[i].fixture \notin ReadableFiles
                             \/ steps[i].fixture \in MalformedFiles)}
      badVerb == {i \in 1..Len(steps) : BadVerb(steps[i])}
  IN  IF unresolved # {}
      THEN LET step == steps[Least(unresolved)]
           IN  IF step.fixture = "" THEN "unresolved-step"
               ELSE IF step.fixture \notin ReadableFiles THEN "ENOENT"
               ELSE "invalid-fixture"
      ELSE IF badVerb # {} THEN "unsupported-method"
      ELSE "none"

RunReturned == pc \notin {"run", "runThrew"}

\* C26 as stated: every parsing or setup error (malformed scenario file,
\* unreadable fixture, fixture without status line, unsupported verb,
\* unresolved step) is raised from run() before a test is registered, and no
\* test of a scenario fails with one.
C26_SetupErrorsAbortRun ==
  /\ pc = "runThrew" => outcome = <<>>
  /\ RunReturned =>
       /\ failure.kind \notin SetupErrorKinds
       /\ \A t \in 1..Len(scenarios) : ExpectedSetupError(scenarios[t].steps) = "none"

\* C26, amended: a malformed scenario file is raised from run() before a test
\* is registered; an unreadable fixture, a fixture without status line, an
\* unsupported verb and an unresolved step are raised inside the test of the
\* scenario they belong to, before invoke is called, and are that test's
\* failure; every other test still runs.
C26_SetupErrorsFailTheTest ==
  /\ pc # "run" => (pc = "runThrew" <=> parseResult.status = "threw")
  /\ pc = "runThrew" =>
       /\ outcome = <<>> /\ scenarios = <<>> /\ imports = 0
       /\ failure.kind \in {"missing-field", "TypeError"}
  /\ pc = "afterEach" =>
       LET expected == ExpectedSetupError(scenarios[cur].steps)
       IN  IF expected = "none" THEN failure.kind \notin SetupErrorKinds
           ELSE outcome[cur] = "fail" /\ failure.kind = expected /\ invokeCalls = <<>>
  /\ pc = "finished" => \A t \in 1..Len(scenarios) : outcome[t] # "none" /\ cleanups[t] = 1

C26_Witness ==
  /\ pc = "afterEach" /\ cur = 2
  /\ outcome[1] = "pass" /\ outcome[2] = "fail"
  /\ failure.kind = "ENOENT"
  /\ Len(scenarios) > 2

----------------------------------------------------------------------------

\* what the body of a test finds when it starts
FreshTest ==
  /\ pending = {} /\ netConnect /\ ~consoleMuted
  /\ scopes = <<>> /\ resolvedSteps = <<>> /\ params = <<>> /\ context = <<>>
  /\ invokeCalls = <<>> /\ errorCalls = <<>>
  /\ invokeOutcome = NoOutcome /\ errorOutcome = NoOutcome /\ engineResult = NoResult
  /\ failure = NoFailure /\ ~verified
  /\ script = scriptOption.module

\* C27: when a test starts installing its interceptors no interceptor of
\* another scenario is active, whatever the earlier tests did; a test starts
\* from the same state after a failed test as after a passed one, so that a
\* failure does not change the outcome of another test.
C27_NoOverlap ==
  /\ \A i \in pending : i.test = cur
  /\ pc = "setup" => pending = {} /\ scopes = <<>>
  /\ pc = "test" => FreshTest

C27_Witness ==
  /\ pc = "setup" /\ cur = 2
  /\ outcome[1] = "fail"
  /\ Len(resolvedSteps) = 2

\* C28: the test merges, resolves, disables networking, installs, calls
\* invoke, calls error, checks the interceptors and tears down, in this
\* order: while invoke or error runs, networking is disabled and every
\* interceptor of the scenario is installed.
C28_Order ==
  /\ pc \in {"invoking", "erroring"} =>
       LET steps == scenarios[cur].steps
       IN  /\ ~netConnect
           /\ Len(scopes) = Len(steps)
           /\ \A i \in 1..Len(scopes) :
                scopes[i].step = i /\ scopes[i].test = cur /\ scopes[i].url = steps[i].request.url
           /\ Len(resolvedSteps) = Len(steps)
           /\ \A i \in 1..Len(steps) : ~NeedsFile(resolvedSteps[i])
           /\ params = MergeDefaults(action, scenarios[cur]).params
           /\ context = MergeDefaults(action, scenarios[cur]).context
           /\ ~verified /\ cleanups[cur] = 0
  /\ invokeCalls # <<>> => ~netConnect /\ cleanups[cur] = 0
  /\ errorCalls # <<>> => invokeCalls # <<>> /\ invokeOutcome # NoOutcome
  /\ verified => engineResult.status = "ok" /\ pc = "afterEach" /\ cleanups[cur] = 0
  /\ cleanups[cur] > 0 => pc = "finished"

C28_Witness ==
  /\ pc = "erroring" /\ ~netConnect
  /\ Len(scenarios[cur].steps) = 2 /\ Len(scopes) = 2
  /\ pending # {}

----------------------------------------------------------------------------

TestPositions ==
  {"test", "setup", "engine", "invoking", "erroring", "engineDone", "afterEach", "finished"}

SameModule ==
  /\ pc \in TestPositions => script = scriptOption.module
  /\ scriptOption.kind = "module" => imports = 0
  /\ imports <= 1

\* C29 as stated: a script given by path is not loaded when run() is called
\* but on first use, at most once, and every test uses that module; a script
\* given as a module is used as it is and nothing is loaded.
C29_LazyLoad ==
  /\ SameModule
  /\ (scriptOption.kind = "path" /\ pc = "beforeAll") => imports = 0

\* C29, amended: the load of a script given by path is started by run()
\* itself, once the scenario file has been parsed, and awaited before the
\* first test; it is started once, and every test uses that module.
C29_LoadStartedByRun ==
  /\ SameModule
  /\ scriptOption.kind = "path" => imports = IF RunReturned THEN 1 ELSE 0

C29_Witness ==
  /\ scriptOption.kind = "path" /\ imports = 1
  /\ cur = 2 /\ pc = "invoking"
  /\ script = scriptOption.module

\* C30: for a scenario the parser accepts, one run of runScenarioHandlers
\* calls invoke exactly once and error at most once, and does not report
\* success without having called invoke.
C30_InvokeOnce ==
  /\ Len(invokeCalls) <= 1 /\ Len(errorCalls) <= 1
  /\ pc = "engineDone" => Len(invokeCalls) = 1

====
